---- MODULE Spec2Model ----
(***************************************************************************)
(* A model of nsm-nitro-enclave-utils: the COSE signer, the four-step      *)
(* attestation-document verifier, the certificate-chain generator and the  *)
(* development ("mock") drivers.                                           *)
(*                                                                         *)
(* Byte strings are sequences of natural numbers ("tokens").  A            *)
(* cryptographic signature is symbolic: the signature of message m under   *)
(* the private key k is the token string <<k>> \o m, and it verifies under *)
(* a public key exactly when that key is k and the message is m.  A key    *)
(* pair is one number, standing for the private key where something is    *)
(* signed and for the public key where something is verified.              *)
(***************************************************************************)
EXTENDS Integers, Sequences, FiniteSets, TLC

(***************************************************************************)
(* Bounds of the model.                                                    *)
(***************************************************************************)
\* The longest validity (in seconds) NsmCertChain::generate is asked for.
MaxValidUntil == 1
\* The most seconds the system clock advances between two reads of it
\* inside one call of NsmCertChain::generate.
MaxTick == 1
\* The most requests one driver serves.
MaxCalls == 2
\* The threads that share one driver.
MaxThreads == 2
\* The most operations made on one Pcrs.
MaxSteps == 2

(***************************************************************************)
(* Program constants.                                                      *)
(***************************************************************************)
PCR_LENGTH == 48
PCR_COUNT == 8
MILLIS_PER_SEC == 1000
ES384 == 35
ProfileRoot == 1
ProfileSubCA == 2
ProfileLeaf == 3
SHA384 == 2
CborNull == 246
DEV_MODULE_ID == 1
PHONY_MODULE_ID == 2

(***************************************************************************)
(* Keys.  SecretKey::random draws a P-384 key; the other kinds are the     *)
(* subject keys a caller-supplied certificate may carry.                   *)
(***************************************************************************)
P384Keys == {1, 2, 3, 4}
OtherEcKeys == {5}
RsaKeys == {6}
Keys == P384Keys \cup OtherEcKeys \cup RsaKeys

\* The public key's algorithm identifier is id-ecPublicKey.
IsEcPublicKey(k) == k \in P384Keys \cup OtherEcKeys
\* VerifyingKey::from_sec1_bytes accepts the key: a point of P-384.
IsP384Point(k) == k \in P384Keys

\* generate_key: a key pair no earlier call returned.
generate_key(used) ==
    CHOOSE k \in P384Keys \ used : \A j \in P384Keys \ used : k <= j

\* signing_key.sign(bytes)
EcdsaSign(k, msg) == <<k>> \o msg

\* verifying_key.verify(msg, &signature), after Signature::try_from
EcdsaVerify(k, msg, sig) == IsP384Point(k) /\ sig = <<k>> \o msg

(***************************************************************************)
(* Options and byte-string framing.  None is <<>>, Some(b) is <<b>>.       *)
(***************************************************************************)
None == <<>>
Some(b) == <<b>>

Min(S) == CHOOSE x \in S : \A y \in S : x <= y

\* A definite-length byte string: its length, then its bytes.
EncBytes(b) == <<Len(b)>> \o b

EncOpt(o) == IF o = None THEN <<CborNull>> ELSE EncBytes(o[1])

RECURSIVE EncList(_)
EncList(l) == IF l = <<>> THEN <<>> ELSE EncBytes(Head(l)) \o EncList(Tail(l))

\* A register value vec![b; n] is written as the pair <<n, b>>.
RECURSIVE EncEntries(_, _)
EncEntries(m, S) ==
    IF S = {} THEN <<>>
    ELSE LET k == Min(S) IN <<k>> \o m[k] \o EncEntries(m, S \ {k})

EncPcrs(m) == <<Cardinality(DOMAIN m)>> \o EncEntries(m, DOMAIN m)

Fail == [ok |-> FALSE, v |-> <<>>, rest |-> <<>>]

TakeBytes(s) ==
    IF Len(s) >= 1 /\ s[1] <= Len(s) - 1
    THEN [ok |-> TRUE, v |-> SubSeq(s, 2, 1 + s[1]),
          rest |-> SubSeq(s, 2 + s[1], Len(s))]
    ELSE Fail

TakeOpt(s) ==
    IF Len(s) >= 1 /\ s[1] = CborNull
    THEN [ok |-> TRUE, v |-> None, rest |-> Tail(s)]
    ELSE LET b == TakeBytes(s) IN
         IF b.ok THEN [ok |-> TRUE, v |-> Some(b.v), rest |-> b.rest] ELSE Fail

RECURSIVE TakeN(_, _, _)
TakeN(s, n, acc) ==
    IF n = 0 THEN [ok |-> TRUE, v |-> acc, rest |-> s]
    ELSE LET b == TakeBytes(s) IN
         IF b.ok THEN TakeN(b.rest, n - 1, Append(acc, b.v)) ELSE Fail

TakeList(s) == IF Len(s) >= 1 THEN TakeN(Tail(s), s[1], <<>>) ELSE Fail

\* A later entry with a key already read replaces the earlier one.
RECURSIVE TakeEntries(_, _, _)
TakeEntries(s, n, acc) ==
    IF n = 0 THEN [ok |-> TRUE, v |-> acc, rest |-> s]
    ELSE IF Len(s) >= 3
         THEN TakeEntries(SubSeq(s, 4, Len(s)), n - 1,
                          (s[1] :> <<s[2], s[3]>>) @@ acc)
         ELSE Fail

TakePcrs(s) == IF Len(s) >= 1 THEN TakeEntries(Tail(s), s[1], <<>>) ELSE Fail

(***************************************************************************)
(* AttestationDoc::to_binary and AttestationDoc::from_binary.              *)
(***************************************************************************)
Digests == {1, 2, 3}

to_binary(d) ==
    <<d.module_id, d.digest, d.timestamp>>
        \o EncPcrs(d.pcrs)
        \o EncBytes(d.certificate)
        \o <<Len(d.cabundle)>> \o EncList(d.cabundle)
        \o EncOpt(d.public_key)
        \o EncOpt(d.user_data)
        \o EncOpt(d.nonce)

from_binary(p) ==
    IF Len(p) < 3 \/ p[2] \notin Digests THEN [ok |-> FALSE]
    ELSE LET pc == TakePcrs(SubSeq(p, 4, Len(p)))
             ce == TakeBytes(pc.rest)
             cb == TakeList(ce.rest)
             pk == TakeOpt(cb.rest)
             ud == TakeOpt(pk.rest)
             no == TakeOpt(ud.rest)
         IN  IF pc.ok /\ ce.ok /\ cb.ok /\ pk.ok /\ ud.ok /\ no.ok
                /\ no.rest = <<>>
             THEN [ok |-> TRUE,
                   doc |-> [module_id |-> p[1], digest |-> p[2],
                            timestamp |-> p[3], pcrs |-> pc.v,
                            certificate |-> ce.v, cabundle |-> cb.v,
                            public_key |-> pk.v, user_data |-> ud.v,
                            nonce |-> no.v]]
             ELSE [ok |-> FALSE]

(***************************************************************************)
(* X.509 certificates.  The to-be-signed part names the profile, the       *)
(* subject's public key and the validity (seconds since the epoch); every  *)
(* name is Name::default(), so issuer and subject names always match and   *)
(* are left out.                                                           *)
(***************************************************************************)
Profiles == {ProfileRoot, ProfileSubCA, ProfileLeaf}

\* CertificateBuilder::new(profile, .., Validity::from_now(valid_until), ..,
\* public_key, &signing_key).build(), DER-encoded; now is the clock read.
build_cert(profile, signing_key, public_key, now, valid_until) ==
    LET tbs == <<profile, public_key, now, now + valid_until>>
    IN  tbs \o EcdsaSign(signing_key, tbs)

ParseCert(der) ==
    IF Len(der) = 9 /\ der[1] \in Profiles /\ der[2] \in Keys
    THEN [ok |-> TRUE, profile |-> der[1], spki |-> der[2],
          nb |-> der[3], na |-> der[4],
          tbs |-> SubSeq(der, 1, 4), sig |-> SubSeq(der, 5, 9)]
    ELSE [ok |-> FALSE]

(***************************************************************************)
(* COSE_Sign1.                                                             *)
(***************************************************************************)
\* cose.to_vec()
CoseToVec(alg, payload, signature) ==
    <<alg>> \o EncOpt(payload) \o EncBytes(signature)

\* CoseSign1::from_slice
CoseFromSlice(b) ==
    IF Len(b) < 1 THEN [ok |-> FALSE]
    ELSE LET pl == TakeOpt(Tail(b))
             sg == TakeBytes(pl.rest)
         IN  IF pl.ok /\ sg.ok /\ sg.rest = <<>>
             THEN [ok |-> TRUE, alg |-> b[1], payload |-> pl.v,
                   signature |-> sg.v]
             ELSE [ok |-> FALSE]

\* A Sig_structure that leaves the payload out.
SigStructureNoPayload(alg, aad, payload) == <<alg>> \o EncBytes(aad)

\* The Sig_structure: protected header, external data, payload.
SigStructure(alg, aad, payload) ==
    <<alg>> \o EncBytes(aad) \o EncBytes(payload)

\* A signer that signs the payload itself and not the Sig_structure.
SignRawPayload(doc, signing_key, to_vec_ok) ==
    LET payload == to_binary(doc)
        signature == EcdsaSign(signing_key, payload)
    IN  IF to_vec_ok
        THEN [ok |-> TRUE, bytes |-> CoseToVec(ES384, Some(payload), signature)]
        ELSE [ok |-> FALSE]

\* AttestationDocSignerExt::sign.  to_vec_ok is the outcome of the COSE
\* encoder (cose.to_vec()), the one step of sign that can fail.
sign(doc, signing_key, to_vec_ok) ==
    LET payload == to_binary(doc)
        signature == EcdsaSign(signing_key, SigStructure(ES384, <<>>, payload))
    IN  IF to_vec_ok
        THEN [ok |-> TRUE, bytes |-> CoseToVec(ES384, Some(payload), signature)]
        ELSE [ok |-> FALSE]

(***************************************************************************)
(* webpki: trust anchors and path building.                                *)
(***************************************************************************)
\* EndEntityCert::try_from(end_cert): the certificate parses.
EndEntityCertTryFrom(der) == ParseCert(der)

\* anchor_from_trusted_cert(root_cert): the anchor is the certificate's
\* subject (always the empty name here) and its public key; nothing else of
\* the certificate is kept.
anchor_from_trusted_cert(der) ==
    LET c == ParseCert(der)
    IN  IF c.ok THEN [ok |-> TRUE, spki |-> c.spki] ELSE [ok |-> FALSE]

\* Path building from cert up to the anchor: cert is valid at t (seconds) and
\* has the basic constraints of its role (path holds the keys of the
\* certificates below it, none for the end entity), and it is signed by the
\* anchor's key, or by an intermediate not yet on the path from which a path
\* leads on.
RECURSIVE build_chain(_, _, _, _, _)
build_chain(cert, path, anchor, ints, t) ==
    /\ cert.nb <= t
    /\ t <= cert.na
    /\ IF path = {} THEN cert.profile = ProfileLeaf
                    ELSE cert.profile # ProfileLeaf
    /\ \/ EcdsaVerify(anchor, cert.tbs, cert.sig)
       \/ \E i \in 1..Len(ints) :
             LET issuer == ParseCert(ints[i])
             IN  /\ issuer.ok
                 /\ issuer.spki \notin path \cup {cert.spki}
                 /\ EcdsaVerify(issuer.spki, cert.tbs, cert.sig)
                 /\ build_chain(issuer, path \cup {cert.spki}, anchor, ints, t)

\* Path building that takes no notice of a certificate's expiry: the chain
\* is accepted when it was valid at some second up to secs.
verify_for_usage_no_expiry(end_cert, root_spki, int_certs, secs) ==
    \E t \in 0..secs : build_chain(end_cert, {}, root_spki, int_certs, t)

\* Path building that accepts any P-384 key as the trust anchor.
verify_for_usage_any_anchor(end_cert, root_spki, int_certs, secs) ==
    \E k \in P384Keys : build_chain(end_cert, {}, k, int_certs, secs)

\* end_cert.verify_for_usage(&[ECDSA_P384_SHA384], &[root_cert], &int_certs,
\* time, KeyUsage::server_auth(), None, None), time in seconds.
verify_for_usage(end_cert, root_spki, int_certs, secs) ==
    build_chain(end_cert, {}, root_spki, int_certs, secs)

(***************************************************************************)
(* The verifier: AttestationDocVerifierExt::from_cose.                     *)
(***************************************************************************)
Err(kind, step) == [tag |-> "Err", kind |-> kind, step |-> step]
Ok(doc) == [tag |-> "Ok", kind |-> "None", step |-> 4, doc |-> doc]

\* A ChainVerifier::new that looks at the root certificate first.
ChainVerifierNewRootFirst(root_cert, int_certs, end_cert) ==
    LET ee == EndEntityCertTryFrom(end_cert)
        ta == anchor_from_trusted_cert(root_cert)
    IN  IF ~ta.ok THEN [ok |-> FALSE, kind |-> "InvalidRootCertificate"]
        ELSE IF ~ee.ok THEN [ok |-> FALSE, kind |-> "InvalidEndCertificate"]
        ELSE [ok |-> TRUE, root_cert |-> ta.spki, int_certs |-> int_certs,
              end_cert |-> ee]

\* ChainVerifier::new
ChainVerifierNew(root_cert, int_certs, end_cert) ==
    LET ee == EndEntityCertTryFrom(end_cert)
        ta == anchor_from_trusted_cert(root_cert)
    IN  IF ~ee.ok THEN [ok |-> FALSE, kind |-> "InvalidEndCertificate"]
        ELSE IF ~ta.ok THEN [ok |-> FALSE, kind |-> "InvalidRootCertificate"]
        ELSE [ok |-> TRUE, root_cert |-> ta.spki, int_certs |-> int_certs,
              end_cert |-> ee]

\* ChainVerifier::verify reading the time-source value as seconds.
ChainVerifierVerifySecs(cv, time) ==
    verify_for_usage(cv.end_cert, cv.root_cert, cv.int_certs, time)

\* ChainVerifier::verify: the time source counts milliseconds.
ChainVerifierVerify(cv, time) ==
    verify_for_usage(cv.end_cert, cv.root_cert, cv.int_certs,
                     time \div MILLIS_PER_SEC)

\* A signature check that looks at the signed message but not at the key.
VerifySignatureAnyKey(cose, key) ==
    \E k \in P384Keys :
        EcdsaVerify(k, SigStructure(cose.alg, <<>>, cose.payload[1]),
                    cose.signature)

\* cose.verify_signature(&[], |signature, msg| ..) under the public key of
\* the document's certificate.
VerifySignature(cose, key) ==
    EcdsaVerify(key, SigStructure(cose.alg, <<>>, cose.payload[1]),
                cose.signature)

\* A step 4 that evaluates the signature before the kind of the key.
SignatureStepSignatureFirst(cose, doc) ==
    LET doc_cert == ParseCert(doc.certificate)
    IN  IF ~doc_cert.ok THEN Err("InvalidAttestationDoc", 4)
        ELSE IF ~VerifySignature(cose, doc_cert.spki)
             THEN Err("Verification", 4)
        ELSE IF ~IsEcPublicKey(doc_cert.spki)
             THEN Err("InvalidAttestationDoc", 4)
        ELSE IF ~IsP384Point(doc_cert.spki)
             THEN Err("InvalidAttestationDoc", 4)
        ELSE Ok(doc)

\* Step 4 of from_cose: the key of the document's certificate, then the
\* signature.
SignatureStep(cose, doc) ==
    LET doc_cert == ParseCert(doc.certificate)
    IN  IF ~doc_cert.ok THEN Err("InvalidAttestationDoc", 4)
        ELSE IF ~IsEcPublicKey(doc_cert.spki)
             THEN Err("InvalidAttestationDoc", 4)
        ELSE IF ~IsP384Point(doc_cert.spki)
             THEN Err("InvalidAttestationDoc", 4)
        ELSE IF ~VerifySignature(cose, doc_cert.spki)
             THEN Err("Verification", 4)
        ELSE Ok(doc)

\* Step 3 of from_cose, then step 4.
ChainStep(cose, doc, root_cert, time) ==
    LET cv == ChainVerifierNew(root_cert, doc.cabundle, doc.certificate)
    IN  IF ~cv.ok THEN Err(cv.kind, 3)
        ELSE IF ~ChainVerifierVerify(cv, time) THEN Err("Verification", 3)
        ELSE SignatureStep(cose, doc)

from_cose(cose_attestation_doc, root_cert, time) ==
    LET cose == CoseFromSlice(cose_attestation_doc)
    IN  IF ~cose.ok THEN Err("InvalidCose", 1)
        ELSE IF cose.payload = None THEN Err("InvalidCose", 1)
        ELSE LET decoded == from_binary(cose.payload[1])
             IN  IF ~decoded.ok THEN Err("InvalidAttestationDoc", 2)
                 ELSE ChainStep(cose, decoded.doc, root_cert, time)

(***************************************************************************)
(* The earlier revision of the verifier (src/src): its errors are          *)
(* messages, its time is in seconds, and its ChainVerifier::verify unwraps *)
(* the result of verify_for_usage, so a chain that does not verify aborts  *)
(* the caller.                                                             *)
(***************************************************************************)
Panic(step) == [tag |-> "Panic", kind |-> "None", step |-> step]

LegacyChainVerifierNew(trust_anchor, int_certs, end_cert) ==
    LET ee == EndEntityCertTryFrom(end_cert)
        ta == anchor_from_trusted_cert(trust_anchor)
    IN  IF ~ee.ok THEN [ok |-> FALSE, kind |-> "Failed to parse EndEntityCert"]
        ELSE IF ~ta.ok
             THEN [ok |-> FALSE, kind |-> "Failed to parse TrustAnchor"]
        ELSE [ok |-> TRUE, root_cert |-> ta.spki, int_certs |-> int_certs,
              end_cert |-> ee]

\* The revocation status of a certificate under the lists supplied.  A list
\* is [issuer |-> the key that signed it, revoked |-> whether it names serial
\* number 1], the serial number build_cert gives every certificate.
CrlStatus(crls, cert) ==
    LET mine == {i \in 1..Len(crls) : crls[i].issuer = cert.sig[1]}
    IN  IF mine = {} THEN "unknown"
        ELSE IF \E i \in mine : crls[i].revoked THEN "revoked"
        ELSE "good"

\* Path building under revocation options of RevocationCheckDepth::Chain
\* and UnknownStatusPolicy::Deny: every certificate below the anchor has a
\* list of its issuer that does not name it.
RECURSIVE build_chain_revocation(_, _, _, _, _, _)
build_chain_revocation(cert, path, anchor, ints, t, crls) ==
    /\ cert.nb <= t
    /\ t <= cert.na
    /\ IF path = {} THEN cert.profile = ProfileLeaf
                    ELSE cert.profile # ProfileLeaf
    /\ CrlStatus(crls, cert) = "good"
    /\ \/ EcdsaVerify(anchor, cert.tbs, cert.sig)
       \/ \E i \in 1..Len(ints) :
             LET issuer == ParseCert(ints[i])
             IN  /\ issuer.ok
                 /\ issuer.spki \notin path \cup {cert.spki}
                 /\ EcdsaVerify(issuer.spki, cert.tbs, cert.sig)
                 /\ build_chain_revocation(issuer, path \cup {cert.spki},
                                           anchor, ints, t, crls)

\* ChainVerifier::verify(time, crls): the revocation options are built from
\* the lists when some are supplied (an empty slice is refused), and unwrap
\* panics when verify_for_usage returns an error.
LegacyChainVerifierVerify(cv, time, crls) ==
    IF crls # None /\ crls[1] = <<>>
    THEN Err("Failed to create revocation builder", 3)
    ELSE IF IF crls = None
            THEN verify_for_usage(cv.end_cert, cv.root_cert, cv.int_certs,
                                  time)
            ELSE build_chain_revocation(cv.end_cert, {}, cv.root_cert,
                                        cv.int_certs, time, crls[1])
         THEN [tag |-> "Ok", kind |-> "None", step |-> 3]
         ELSE Panic(3)

LegacySignatureStep(cose, doc) ==
    LET doc_cert == ParseCert(doc.certificate)
    IN  IF ~doc_cert.ok
        THEN Err("Failed to decode attestation certificate", 4)
        ELSE IF ~IsEcPublicKey(doc_cert.spki)
             THEN Err("Attestation doc certificate has incorrect OID", 4)
        ELSE IF ~IsP384Point(doc_cert.spki)
             THEN Err("Failed to parse verifying key", 4)
        ELSE IF ~VerifySignature(cose, doc_cert.spki)
             THEN Err("Verification of attestation doc signature failed", 4)
        ELSE Ok(doc)

LegacyChainStep(cose, doc, root_cert, time) ==
    LET cv == LegacyChainVerifierNew(root_cert, doc.cabundle, doc.certificate)
    IN  IF ~cv.ok THEN Err(cv.kind, 3)
        ELSE LET verified == LegacyChainVerifierVerify(cv, time, None)
             IN  IF verified.tag # "Ok" THEN verified
                 ELSE LegacySignatureStep(cose, doc)

legacy_from_cose(cose_attestation_doc, root_cert, time) ==
    LET cose == CoseFromSlice(cose_attestation_doc)
    IN  IF ~cose.ok THEN Err("Failed to decode COSE", 1)
        ELSE IF cose.payload = None THEN Err("COSE missing payload", 1)
        ELSE LET decoded == from_binary(cose.payload[1])
             IN  IF ~decoded.ok THEN Err("Failed to decode cbor", 2)
                 ELSE LegacyChainStep(cose, decoded.doc, root_cert, time)

(***************************************************************************)
(* The chain generator: NsmCertChain::generate.  Each build_cert reads the *)
(* clock; now holds the three readings, in seconds.                        *)
(***************************************************************************)
\* A generator whose end-entity certificate is signed by its own key.
generate_self_signed(valid_until, now) ==
    LET root_key == generate_key({})
        int_key == generate_key({root_key})
        end_key == generate_key({root_key, int_key})
    IN  [root |-> build_cert(ProfileRoot, root_key, root_key, now[1],
                             valid_until),
         int |-> build_cert(ProfileSubCA, root_key, int_key, now[2],
                            valid_until),
         end_signer |->
            [cert |-> build_cert(ProfileLeaf, end_key, end_key, now[3],
                                 valid_until),
             signing_key |-> end_key]]

\* A generator that reuses the root key pair for the intermediate.
generate_shared_key(valid_until, now) ==
    LET root_key == generate_key({})
        int_key == root_key
        end_key == generate_key({root_key, int_key})
    IN  [root |-> build_cert(ProfileRoot, root_key, root_key, now[1],
                             valid_until),
         int |-> build_cert(ProfileSubCA, root_key, int_key, now[2],
                            valid_until),
         end_signer |->
            [cert |-> build_cert(ProfileLeaf, int_key, end_key, now[3],
                                 valid_until),
             signing_key |-> end_key]]

generate(valid_until, now) ==
    LET root_key == generate_key({})
        int_key == generate_key({root_key})
        end_key == generate_key({root_key, int_key})
    IN  [root |-> build_cert(ProfileRoot, root_key, root_key, now[1],
                             valid_until),
         int |-> build_cert(ProfileSubCA, root_key, int_key, now[2],
                            valid_until),
         end_signer |->
            [cert |-> build_cert(ProfileLeaf, int_key, end_key, now[3],
                                 valid_until),
             signing_key |-> end_key]]

(***************************************************************************)
(* Platform configuration registers (pcr.rs).  A Pcr, an array of          *)
(* PCR_LENGTH bytes, is written as one number b that names its content (0  *)
(* for zeros); a Vec<u8> of n bytes with content b as <<n, b>>.            *)
(***************************************************************************)
PCR_INDEXES == {"Zero", "One", "Two", "Three", "Four", "Eight"}

\* impl From<PcrIndex> for usize
PcrIndexToUsize(index) ==
    CASE index = "Zero" -> 0
      [] index = "One" -> 1
      [] index = "Two" -> 2
      [] index = "Three" -> 3
      [] index = "Four" -> 4
      [] index = "Eight" -> 8

\* impl TryFrom<usize> for PcrIndex
PcrIndexTryFrom(index) ==
    IF \E i \in PCR_INDEXES : PcrIndexToUsize(i) = index
    THEN [ok |-> TRUE,
          v |-> CHOOSE i \in PCR_INDEXES : PcrIndexToUsize(i) = index]
    ELSE [ok |-> FALSE, kind |-> "Invalid PCR index provided"]

\* A conversion that takes the first PCR_LENGTH bytes of a longer value.
PcrTryFromPrefix(value) ==
    IF value[1] >= PCR_LENGTH THEN [ok |-> TRUE, v |-> value[2]]
    ELSE [ok |-> FALSE, kind |-> "A PCR must have a length of 48."]

\* impl TryFrom<Vec<u8>> for Pcr
PcrTryFrom(value) ==
    IF value[1] = PCR_LENGTH THEN [ok |-> TRUE, v |-> value[2]]
    ELSE [ok |-> FALSE, kind |-> "A PCR must have a length of 48."]

\* pcr.to_vec(), ByteBuf::from(*value)
PcrToVec(pcr) == <<PCR_LENGTH, pcr>>

\* Pcrs::zeros, through Pcrs::from_fn
PcrsZeros == [index \in PCR_INDEXES |-> 0]

\* impl From<BTreeMap<PcrIndex, Pcr>> for Pcrs: zeros, then Pcrs::set for
\* each entry.
PcrsFrom(values) ==
    [index \in PCR_INDEXES |->
        IF index \in DOMAIN values THEN values[index] ELSE PcrsZeros[index]]

\* Pcrs::get
PcrsGet(pcrs, index) == pcrs[index]

\* Pcrs::set
PcrsSet(pcrs, index, pcr) ==
    [i \in DOMAIN pcrs \cup {index} |-> IF i = index THEN pcr ELSE pcrs[i]]

\* A digest that is the same for every seed string.
Sha384Same(seed) == 100

\* Sha384 of a seed string (strings are numbered): the digest's content.
\* No two strings share a digest and no digest is zeros.
Sha384(seed) == 100 + seed

\* Pcrs::seed: zeros, then Pcrs::set of the digest for each entry.
PcrsSeed(values) ==
    [index \in PCR_INDEXES |->
        IF index \in DOMAIN values THEN Sha384(values[index])
        ELSE PcrsZeros[index]]

\* impl Into<BTreeMap<usize, ByteBuf>> for Pcrs
PcrsInto(pcrs) ==
    [u \in {PcrIndexToUsize(i) : i \in DOMAIN pcrs} |->
        PcrToVec(pcrs[CHOOSE i \in DOMAIN pcrs : PcrIndexToUsize(i) = u])]

(***************************************************************************)
(* The registers of the phony driver (phony/pcrs.rs): a map from usize     *)
(* that holds the entries it was built from.                               *)
(***************************************************************************)
PHONY_PCR_INDEXES == {0, 1, 2, 3, 4, 8}

\* Pcrs::zeros, through Pcrs::from_fn
PhonyPcrsZeros == [index \in PHONY_PCR_INDEXES |-> 0]

\* impl TryFrom<BTreeMap<usize, Vec<u8>>> for Pcrs
PhonyPcrsTryFrom(values) ==
    IF \E index \in DOMAIN values : index \notin PHONY_PCR_INDEXES
    THEN [ok |-> FALSE, kind |-> "Invalid PCR index provided"]
    ELSE IF \E index \in DOMAIN values : ~PcrTryFrom(values[index]).ok
    THEN [ok |-> FALSE, kind |-> "PCR must be contain 48 bytes."]
    ELSE [ok |-> TRUE,
          v |-> [index \in DOMAIN values |-> PcrTryFrom(values[index]).v]]

\* A checked_get that tests the index against the largest valid one.
PhonyCheckedGetRange(pcrs, index) ==
    IF index > 8
    THEN [ok |-> FALSE, kind |-> "PCR index out of range"]
    ELSE IF index \notin DOMAIN pcrs
    THEN [ok |-> FALSE, kind |-> "Failed to index PCR"]
    ELSE [ok |-> TRUE, v |-> PcrToVec(pcrs[index])]

\* Pcrs::checked_get
PhonyCheckedGet(pcrs, index) ==
    IF index \notin PHONY_PCR_INDEXES
    THEN [ok |-> FALSE, kind |-> "PCR index out of range"]
    ELSE IF index \notin DOMAIN pcrs
    THEN [ok |-> FALSE, kind |-> "Failed to index PCR"]
    ELSE [ok |-> TRUE, v |-> PcrToVec(pcrs[index])]

\* Pcrs::seed of the phony registers
PhonyPcrsSeed(values) ==
    IF \E index \in DOMAIN values : index \notin PHONY_PCR_INDEXES
    THEN [ok |-> FALSE, kind |-> "Invalid PCR index provided"]
    ELSE [ok |-> TRUE,
          v |-> [index \in DOMAIN values |-> Sha384(values[index])]]

\* A checked_set that stores the value before it looks at its length.
PhonyCheckedSetEager(pcrs, index, pcr) ==
    IF index \notin PHONY_PCR_INDEXES
    THEN [ok |-> FALSE, kind |-> "PCR index out of range", pcrs |-> pcrs]
    ELSE [ok |-> PcrTryFrom(pcr).ok,
          pcrs |-> [i \in DOMAIN pcrs \cup {index} |->
                       IF i = index THEN pcr[2] ELSE pcrs[i]]]

\* Pcrs::checked_set: the result and the registers afterwards
PhonyCheckedSet(pcrs, index, pcr) ==
    IF index \notin PHONY_PCR_INDEXES
    THEN [ok |-> FALSE, kind |-> "PCR index out of range", pcrs |-> pcrs]
    ELSE IF ~PcrTryFrom(pcr).ok
    THEN [ok |-> FALSE, kind |-> "PCR must be contain 48 bytes.", pcrs |-> pcrs]
    ELSE [ok |-> TRUE,
          pcrs |-> [i \in DOMAIN pcrs \cup {index} |->
                       IF i = index THEN PcrTryFrom(pcr).v ELSE pcrs[i]]]

\* impl Into<BTreeMap<usize, ByteBuf>> for Pcrs
PhonyPcrsInto(pcrs) == [index \in DOMAIN pcrs |-> PcrToVec(pcrs[index])]

(***************************************************************************)
(* The registers of the earliest revision (src/src/phony/pcrs.rs): an      *)
(* array of PCR_COUNT registers, indexed from 0.                           *)
(***************************************************************************)
\* Pcrs::zeros
LegacyPcrsZeros == [index \in 0..(PCR_COUNT - 1) |-> 0]

\* impl Into<BTreeMap<usize, ByteBuf>> for Pcrs: the array, enumerated
LegacyPcrsInto(pcrs) == [index \in DOMAIN pcrs |-> PcrToVec(pcrs[index])]

\* Pcrs::checked_get: the guard is index > PCR_COUNT, and self.0[index]
\* panics when index is outside the array.
LegacyPcrsCheckedGet(pcrs, index) ==
    IF index > PCR_COUNT
    THEN [tag |-> "Err", kind |-> "PCR index out of range"]
    ELSE IF index \notin DOMAIN pcrs
    THEN [tag |-> "Panic", kind |-> "index out of bounds"]
    ELSE [tag |-> "Ok", v |-> PcrToVec(pcrs[index])]

\* Pcrs::checked_set: the same guard, then Pcr::try_from, then the
\* assignment to self.0[index].
LegacyPcrsCheckedSet(pcrs, index, pcr) ==
    IF index > PCR_COUNT
    THEN [tag |-> "Err", kind |-> "PCR index out of range", pcrs |-> pcrs]
    ELSE IF ~PcrTryFrom(pcr).ok
    THEN [tag |-> "Err", kind |-> PcrTryFrom(pcr).kind, pcrs |-> pcrs]
    ELSE IF index \notin DOMAIN pcrs
    THEN [tag |-> "Panic", kind |-> "index out of bounds", pcrs |-> pcrs]
    ELSE [tag |-> "Ok", kind |-> "None",
          pcrs |-> [pcrs EXCEPT ![index] = PcrTryFrom(pcr).v]]

\* Phony::describe_pcr of the earliest revision
LegacyDescribePcr(pcrs, index) ==
    LET got == LegacyPcrsCheckedGet(pcrs, index)
    IN  CASE got.tag = "Ok" ->
               [type |-> "DescribePCR", lock |-> TRUE, data |-> got.v]
          [] got.tag = "Err" -> [type |-> "Error", code |-> "InvalidIndex"]
          [] got.tag = "Panic" -> [type |-> "Panic"]

(***************************************************************************)
(* The development drivers: DevNitro (driver/dev/driver.rs) and Phony      *)
(* (phony/mod.rs).  timestamp is the value the driver's time source        *)
(* returns during the request.                                             *)
(***************************************************************************)
ErrorResponse(code) == [type |-> "Error", code |-> code]

\* DevNitro::builder(signing_key, end_cert), the builder's setters with
\* ca_bundle an Option, and build.
DevNitroBuild(signing_key, end_cert, ca_bundle, pcrs) ==
    [kind |-> "DevNitro", signing_key |-> signing_key, end_cert |-> end_cert,
     ca_bundle |-> IF ca_bundle = None THEN <<>> ELSE ca_bundle[1],
     pcrs |-> pcrs]

\* PhonyBuilder::new(signing_key, end_cert, get_timestamp), the builder's
\* setters and build.
PhonyBuild(signing_key, end_cert, ca_bundle, pcrs) ==
    [kind |-> "Phony", signing_key |-> signing_key, end_cert |-> end_cert,
     ca_bundle |-> IF ca_bundle = None THEN <<>> ELSE ca_bundle[1],
     pcrs |-> pcrs]

\* DevNitro::describe_pcr
DevNitroDescribePcr(self, index) ==
    LET i == PcrIndexTryFrom(index)
    IN  IF i.ok
        THEN [type |-> "DescribePCR", lock |-> TRUE,
              data |-> PcrToVec(PcrsGet(self.pcrs, i.v))]
        ELSE ErrorResponse("InvalidIndex")

\* Phony::describe_pcr
PhonyDescribePcr(self, index) ==
    LET pcr == PhonyCheckedGet(self.pcrs, index)
    IN  IF pcr.ok
        THEN [type |-> "DescribePCR", lock |-> TRUE, data |-> pcr.v]
        ELSE ErrorResponse("InvalidIndex")

\* An attestation whose document carries the request's user_data as its
\* nonce and the request's nonce as its user_data.
DevNitroAttestationSwapped(self, user_data, nonce, public_key, timestamp, to_vec_ok) ==
    LET doc == [module_id |-> DEV_MODULE_ID, digest |-> SHA384,
                timestamp |-> timestamp, pcrs |-> PcrsInto(self.pcrs),
                certificate |-> self.end_cert, cabundle |-> self.ca_bundle,
                user_data |-> nonce, nonce |-> user_data,
                public_key |-> public_key]
        signed == sign(doc, self.signing_key, to_vec_ok)
    IN  IF signed.ok THEN [type |-> "Attestation", document |-> signed.bytes]
        ELSE ErrorResponse("InternalError")

\* An attestation that stamps its document with 0 instead of the value of
\* the time source.
DevNitroAttestationUnstamped(self, user_data, nonce, public_key, timestamp, to_vec_ok) ==
    LET doc == [module_id |-> DEV_MODULE_ID, digest |-> SHA384,
                timestamp |-> 0, pcrs |-> PcrsInto(self.pcrs),
                certificate |-> self.end_cert, cabundle |-> self.ca_bundle,
                user_data |-> user_data, nonce |-> nonce,
                public_key |-> public_key]
        signed == sign(doc, self.signing_key, to_vec_ok)
    IN  IF signed.ok THEN [type |-> "Attestation", document |-> signed.bytes]
        ELSE ErrorResponse("InternalError")

\* DevNitro::attestation
DevNitroAttestation(self, user_data, nonce, public_key, timestamp, to_vec_ok) ==
    LET doc == [module_id |-> DEV_MODULE_ID, digest |-> SHA384,
                timestamp |-> timestamp, pcrs |-> PcrsInto(self.pcrs),
                certificate |-> self.end_cert, cabundle |-> self.ca_bundle,
                user_data |-> user_data, nonce |-> nonce,
                public_key |-> public_key]
        signed == sign(doc, self.signing_key, to_vec_ok)
    IN  IF signed.ok THEN [type |-> "Attestation", document |-> signed.bytes]
        ELSE ErrorResponse("InternalError")

\* Phony::attestation
PhonyAttestation(self, user_data, nonce, public_key, timestamp, to_vec_ok) ==
    LET doc == [module_id |-> PHONY_MODULE_ID, digest |-> SHA384,
                timestamp |-> timestamp, pcrs |-> PhonyPcrsInto(self.pcrs),
                certificate |-> self.end_cert, cabundle |-> self.ca_bundle,
                user_data |-> user_data, nonce |-> nonce,
                public_key |-> public_key]
        signed == sign(doc, self.signing_key, to_vec_ok)
    IN  IF signed.ok THEN [type |-> "Attestation", document |-> signed.bytes]
        ELSE ErrorResponse("InternalError")

\* A dispatch whose catch-all arm answers InvalidIndex.
DevNitroProcessRequestInvalidIndex(self, request, timestamp, to_vec_ok) ==
    IF request.type = "DescribePCR"
    THEN DevNitroDescribePcr(self, request.index)
    ELSE IF request.type = "Attestation"
    THEN DevNitroAttestation(self, request.user_data, request.nonce,
                             request.public_key, timestamp, to_vec_ok)
    ELSE ErrorResponse("InvalidIndex")

\* impl Driver for DevNitro: process_request
DevNitroProcessRequest(self, request, timestamp, to_vec_ok) ==
    IF request.type = "DescribePCR"
    THEN DevNitroDescribePcr(self, request.index)
    ELSE IF request.type = "Attestation"
    THEN DevNitroAttestation(self, request.user_data, request.nonce,
                             request.public_key, timestamp, to_vec_ok)
    ELSE ErrorResponse("InvalidOperation")

\* impl Driver for Phony: process_request
PhonyProcessRequest(self, request, timestamp, to_vec_ok) ==
    IF request.type = "DescribePCR"
    THEN PhonyDescribePcr(self, request.index)
    ELSE IF request.type = "Attestation"
    THEN PhonyAttestation(self, request.user_data, request.nonce,
                          request.public_key, timestamp, to_vec_ok)
    ELSE ErrorResponse("InvalidOperation")

\* Nsm::process_request / Driver::process_request on the boxed driver
process_request(self, request, timestamp, to_vec_ok) ==
    IF self.kind = "DevNitro"
    THEN DevNitroProcessRequest(self, request, timestamp, to_vec_ok)
    ELSE PhonyProcessRequest(self, request, timestamp, to_vec_ok)

(***************************************************************************)
(* The state.  chain: the generated chain.  blob, sent: the signed         *)
(* document in flight, and the document and key it was made from (flipped  *)
(* is the position of the byte changed in flight, 0 for none).  driver,    *)
(* request, response: the development driver and its last exchange.        *)
(* reads: what the driver read while it served that exchange (the value    *)
(* of its time source, the outcome of the COSE encoder).  built: the       *)
(* driver as its builder returned it.  calls: the number of requests the   *)
(* driver has served.  threads: for each thread that shares the driver,   *)
(* where it is in its call of process_request and what it holds.  nitro:   *)
(* the hardware driver (not yet constructed, live with its handle, or      *)
(* dropped).  nsm: the calls made to the enclave interface, in order.      *)
(* regs: a value of the register data model (a Pcr or PcrIndex conversion, *)
(* a pair of seeded Pcrs, or a Pcrs with the last operation made on it).   *)
(* outcome: the verifier's input and answer.  An absent value is <<>>, a   *)
(* present one <<v>>.                                                      *)
(***************************************************************************)
VARIABLES chain, blob, sent, driver, built, request, response, reads, calls,
          outcome, threads, nitro, nsm, regs

vars ==
    <<chain, blob, sent, driver, built, request, response, reads, calls, outcome,
      threads, nitro, nsm, regs>>

\* The threads holding a clone of the Arc<Nsm>.
Threads == 1..MaxThreads

\* The second at which NsmCertChain::generate first reads the clock.
GenSecs == {1}
\* The seconds the model looks at, and the time-source values
\* (milliseconds) a verifier is given.
LastSec == 2 + MaxTick + MaxValidUntil
Times ==
    UNION {{sec * MILLIS_PER_SEC, sec * MILLIS_PER_SEC + 999} : sec \in 0..LastSec}

Init ==
    /\ chain = <<>>
    /\ blob = <<>>
    /\ sent = <<>>
    /\ driver = <<>>
    /\ request = <<>>
    /\ response = <<>>
    /\ reads = <<>>
    /\ built = <<>>
    /\ calls = 0
    /\ outcome = <<>>
    /\ threads = [t \in Threads |-> [pc |-> "idle"]]
    /\ nitro = [pc |-> "none"]
    /\ nsm = <<>>
    /\ regs = [kind |-> "none"]

\* NsmCertChain::generate(valid_until): the clock may advance between the
\* three certificates.
Generate ==
    /\ chain = <<>>
    /\ \E valid_until \in 0..MaxValidUntil, n \in GenSecs,
          d1 \in 0..MaxTick, d2 \in 0..MaxTick :
          /\ d1 + d2 <= MaxTick
          /\ chain' = <<generate(valid_until, <<n, n + d1, n + d1 + d2>>)>>
    /\ UNCHANGED <<blob, sent, driver, request, response, outcome, reads, built, calls, threads, nitro, nsm, regs>>

\* The document bodies a caller signs.
OptKeys == {None, Some(<<>>)}
OptData == {None, Some(<<8>>)}
OptNonces == {None, Some(<<7>>)}
WirePcrs == {PcrsInto(PcrsZeros), <<>>}

BaseDoc(certificate, cabundle) ==
    [module_id |-> 0, digest |-> SHA384, timestamp |-> 1500,
     pcrs |-> PcrsInto(PcrsZeros),
     certificate |-> certificate, cabundle |-> cabundle,
     public_key |-> None, user_data |-> Some(<<8>>), nonce |-> Some(<<7>>)]

Signed(doc, key) ==
    /\ \E to_vec_ok \in BOOLEAN :
          LET signed == sign(doc, key, to_vec_ok)
          IN  /\ signed.ok
              /\ blob' = signed.bytes
    /\ sent' = <<[doc |-> doc, key |-> key, flipped |-> 0]>>
    /\ UNCHANGED <<chain, driver, request, response, outcome, reads, built, calls, threads, nitro, nsm, regs>>

\* A caller signs a document that carries the chain, with the chain's key.
SignDoc ==
    /\ chain # <<>>
    /\ blob = <<>>
    /\ \E pk \in OptKeys, ud \in OptData, no \in OptNonces, pcrs \in WirePcrs :
          Signed([BaseDoc(chain[1].end_signer.cert, <<chain[1].int>>) EXCEPT
                     !.pcrs = pcrs, !.public_key = pk,
                     !.user_data = ud, !.nonce = no],
                 chain[1].end_signer.signing_key)

\* A leaf the chain's intermediate key issued for another subject key, with
\* the validity of the chain's end-entity certificate.
LeafFor(c, key) ==
    LET int == ParseCert(c.int)
        end == ParseCert(c.end_signer.cert)
    IN  build_cert(ProfileLeaf, int.spki, key, end.nb, end.na - end.nb)

\* A caller signs a document with any key, any of several certificates
\* (the chain's, leaves for keys of other kinds, none) and any of several
\* bundles.
SignAny ==
    /\ chain # <<>>
    /\ blob = <<>>
    /\ \E key \in P384Keys,
          certificate \in {chain[1].end_signer.cert, <<>>}
              \cup {LeafFor(chain[1], k) : k \in OtherEcKeys \cup RsaKeys},
          cabundle \in {<<chain[1].int>>, <<>>, <<<<0>>, chain[1].int>>} :
          Signed(BaseDoc(certificate, cabundle), key)

\* A caller signs the base document that carries the chain.
SignBase ==
    /\ chain # <<>>
    /\ blob = <<>>
    /\ Signed(BaseDoc(chain[1].end_signer.cert, <<chain[1].int>>),
              chain[1].end_signer.signing_key)

\* The positions of the payload's bytes inside a signed document.
PayloadPositions(b) == 3..(2 + b[2])
FlipValues == 0..7 \cup {CborNull}

\* One byte of the payload changes in flight.
Tamper ==
    /\ blob # <<>>
    /\ sent[1].flipped = 0
    /\ outcome = <<>>
    /\ \E pos \in PayloadPositions(blob), val \in FlipValues :
          /\ val # blob[pos]
          /\ blob' = [blob EXCEPT ![pos] = val]
          /\ sent' = <<[sent[1] EXCEPT !.flipped = pos]>>
    /\ UNCHANGED <<chain, driver, request, response, outcome, reads, built, calls, threads, nitro, nsm, regs>>

\* Root certificates a caller may trust: the chain's certificates, a root of
\* another key, a root of the chain's root key issued at another time, or
\* bytes that are no certificate.
RootChoices(c) ==
    {c.root, c.int, c.end_signer.cert, <<>>,
     build_cert(ProfileRoot, 4, 4, 0, LastSec),
     build_cert(ProfileRoot, ParseCert(c.root).spki, ParseCert(c.root).spki,
                0, 0)}

Verified(rev, bytes, root_cert, time, res) ==
    outcome' = <<[rev |-> rev, bytes |-> bytes, root_cert |-> root_cert,
                  time |-> time, res |-> res]>>

\* AttestationDoc::from_cose(blob, root_cert, time)
Verify ==
    /\ blob # <<>>
    /\ outcome = <<>>
    /\ \E root_cert \in RootChoices(chain[1]), time \in Times :
          Verified("current", blob, root_cert, time,
                   from_cose(blob, root_cert, time))
    /\ UNCHANGED <<chain, blob, sent, driver, request, response, reads, built, calls, threads, nitro, nsm, regs>>

\* from_cose with the root certificate of the chain.
VerifyTrusted ==
    /\ blob # <<>>
    /\ outcome = <<>>
    /\ \E time \in Times :
          Verified("current", blob, chain[1].root, time,
                   from_cose(blob, chain[1].root, time))
    /\ UNCHANGED <<chain, blob, sent, driver, request, response, reads, built, calls, threads, nitro, nsm, regs>>

\* The earlier revision's from_cose: its time argument is a bare u64, given
\* here in seconds or as the value of a millisecond time source.
LegacyVerify ==
    /\ blob # <<>>
    /\ outcome = <<>>
    /\ \E root_cert \in RootChoices(chain[1]), time \in (0..LastSec) \cup Times :
          Verified("legacy", blob, root_cert, time,
                   legacy_from_cose(blob, root_cert, time))
    /\ UNCHANGED <<chain, blob, sent, driver, request, response, reads, built, calls, threads, nitro, nsm, regs>>

\* The earlier revision's ChainVerifier::new(..)?.verify(time, crls), as a
\* caller inside the crate has it, on the certificates of the signed
\* document.
LegacyVerifyChain ==
    /\ blob # <<>>
    /\ outcome = <<>>
    /\ LET root_key == ParseCert(chain[1].root).spki
           int_key == ParseCert(chain[1].int).spki
           good(k) == [issuer |-> k, revoked |-> FALSE]
           revoking(k) == [issuer |-> k, revoked |-> TRUE]
       IN  \E root_cert \in {chain[1].root, <<>>}, time \in 0..LastSec,
              crls \in {None, Some(<<>>), Some(<<good(root_key)>>),
                        Some(<<good(root_key), good(int_key)>>),
                        Some(<<revoking(root_key), good(int_key)>>),
                        Some(<<good(root_key), revoking(int_key)>>)} :
              LET cv == LegacyChainVerifierNew(root_cert,
                                               sent[1].doc.cabundle,
                                               sent[1].doc.certificate)
              IN  outcome' =
                     <<[rev |-> "legacy_chain", bytes |-> blob,
                        root_cert |-> root_cert, time |-> time,
                        crls |-> crls,
                        res |-> IF ~cv.ok THEN Err(cv.kind, 3)
                                ELSE LegacyChainVerifierVerify(cv, time,
                                                               crls)]>>
    /\ UNCHANGED <<chain, blob, sent, driver, request, response, reads, built, calls, threads, nitro, nsm, regs>>

\* Register values a caller configures.
PcrMaps ==
    {<<>>, ("Zero" :> 1), [index \in PCR_INDEXES |-> PcrIndexToUsize(index) + 1]}
PhonyPcrMaps ==
    {<<>>, (0 :> <<PCR_LENGTH, 1>>),
     [index \in PHONY_PCR_INDEXES |-> <<PCR_LENGTH, index + 1>>],
     (0 :> <<PCR_LENGTH - 1, 1>>), (5 :> <<PCR_LENGTH, 1>>)}

Built(d) ==
    /\ driver' = <<d>>
    /\ built' = <<d>>
    /\ UNCHANGED <<chain, blob, sent, request, response, outcome, reads, calls, threads, nitro, nsm, regs>>

\* DevNitro::builder(..) with the chain's end signer, then build.
BuildDevNitro ==
    /\ chain # <<>>
    /\ driver = <<>>
    /\ \E ca_bundle \in {None, Some(<<chain[1].int>>)},
          pcrs \in {PcrsZeros} \cup {PcrsFrom(m) : m \in PcrMaps} :
          Built(DevNitroBuild(chain[1].end_signer.signing_key,
                              chain[1].end_signer.cert, ca_bundle, pcrs))

\* The phony builder with the chain's end signer, then build.  Registers
\* come from Pcrs::zeros or from a Pcrs::try_from that returned Ok.
BuildPhony ==
    /\ chain # <<>>
    /\ driver = <<>>
    /\ \E ca_bundle \in {None, Some(<<chain[1].int>>)},
          pcrs \in {PhonyPcrsZeros}
              \cup {PhonyPcrsTryFrom(m).v :
                       m \in {x \in PhonyPcrMaps : PhonyPcrsTryFrom(x).ok}} :
          Built(PhonyBuild(chain[1].end_signer.signing_key,
                           chain[1].end_signer.cert, ca_bundle, pcrs))

\* The requests of the NSM API.
IndexChoices == {0, 1, 2, 3, 4, 5, 6, 7, 8, 9, 65535}
TimeStamps == {1000, 1999}
AttestationRequests ==
    {[type |-> "Attestation", user_data |-> ud, nonce |-> no,
      public_key |-> pk] : ud \in OptData, no \in OptNonces, pk \in OptKeys}
DescribePcrRequests == {[type |-> "DescribePCR", index |-> i] : i \in IndexChoices}
OtherRequestTypes ==
    {"ExtendPCR", "LockPCR", "LockPCRs", "DescribeNSM", "GetRandom"}
OtherRequest(type) ==
    CASE type = "ExtendPCR" -> [type |-> type, index |-> 0, data |-> <<1>>]
      [] type = "LockPCR" -> [type |-> type, index |-> 0]
      [] type = "LockPCRs" -> [type |-> type, range |-> 1]
      [] OTHER -> [type |-> type]

\* A process_request that, like the hardware, extends a register on
\* ExtendPCR: it stores the request's data in the driver.
ProcessedExtending(req, timestamp, to_vec_ok) ==
    /\ request' = <<req>>
    /\ response' = <<process_request(driver[1], req, timestamp, to_vec_ok)>>
    /\ reads' = <<[timestamp |-> timestamp, to_vec_ok |-> to_vec_ok]>>
    /\ calls' = calls + 1
    /\ driver' = IF req.type = "ExtendPCR"
                 THEN <<[driver[1] EXCEPT !.pcrs =
                            [i \in DOMAIN @ |-> (@[i] + req.data[1]) % 256]]>>
                 ELSE driver
    /\ UNCHANGED <<chain, blob, sent, outcome, built, threads, nitro, nsm, regs>>

\* One call of process_request(&self, request): the driver is borrowed
\* shared and has no cell, lock or atomic, so the call leaves it as it was.
Processed(req, timestamp, to_vec_ok) ==
    /\ request' = <<req>>
    /\ response' = <<process_request(driver[1], req, timestamp, to_vec_ok)>>
    /\ reads' = <<[timestamp |-> timestamp, to_vec_ok |-> to_vec_ok]>>
    /\ calls' = calls + 1
    /\ UNCHANGED <<chain, blob, sent, driver, outcome, built, threads, nitro, nsm, regs>>

\* The requests a caller makes, with what the driver reads while serving.
Serve ==
    \E timestamp \in TimeStamps, to_vec_ok \in BOOLEAN :
       \/ \E req \in AttestationRequests :
             Processed(req, timestamp, to_vec_ok)
       \/ \E req \in DescribePcrRequests :
             Processed(req, timestamp, to_vec_ok)
       \/ \E type \in OtherRequestTypes :
             Processed(OtherRequest(type), timestamp, to_vec_ok)

\* nsm.process_request(request), the first request of a driver
ProcessRequest ==
    /\ driver # <<>>
    /\ response = <<>>
    /\ Serve

\* nsm.process_request(request), a later request of the same driver
ProcessAnother ==
    /\ response # <<>>
    /\ calls < MaxCalls
    /\ Serve

\* The requests the threads make.
ThreadRequests ==
    {[type |-> "Attestation", user_data |-> None, nonce |-> Some(<<7>>),
      public_key |-> None],
     [type |-> "DescribePCR", index |-> 0],
     OtherRequest("ExtendPCR")}

\* A thread calls nsm.process_request(request) on the shared driver.
Enter ==
    /\ driver # <<>>
    /\ \E t \in Threads, req \in ThreadRequests :
          /\ threads[t].pc = "idle"
          /\ threads' = [threads EXCEPT
                            ![t] = [pc |-> "called", request |-> req]]
    /\ UNCHANGED <<chain, blob, sent, driver, built, request, response, reads,
                   calls, outcome, nitro, nsm, regs>>

\* DevNitro::attestation in a thread, up to the document: the thread reads
\* the time source.
Stamp ==
    /\ \E t \in Threads, timestamp \in TimeStamps :
          /\ threads[t].pc = "called"
          /\ threads[t].request.type = "Attestation"
          /\ threads' = [threads EXCEPT
                            ![t] = [pc |-> "stamped",
                                    request |-> threads[t].request,
                                    timestamp |-> timestamp]]
    /\ UNCHANGED <<chain, blob, sent, driver, built, request, response, reads,
                   calls, outcome, nitro, nsm, regs>>

\* What a thread's call answers from the driver as it is now.  The arms
\* that are not Attestation read neither the time source nor the encoder.
ThreadResponse(t, to_vec_ok) ==
    IF threads[t].pc = "stamped"
    THEN [pc |-> "returned", request |-> threads[t].request,
          timestamp |-> threads[t].timestamp, to_vec_ok |-> to_vec_ok,
          response |-> process_request(driver[1], threads[t].request,
                                       threads[t].timestamp, to_vec_ok)]
    ELSE [pc |-> "returned", request |-> threads[t].request,
          timestamp |-> 0, to_vec_ok |-> TRUE,
          response |-> process_request(driver[1], threads[t].request, 0, TRUE)]

\* A return that, like the hardware, extends the shared driver's registers
\* on ExtendPCR.
ReturnExtending ==
    \E t \in Threads :
       /\ threads[t].pc = "called"
       /\ threads[t].request.type = "ExtendPCR"
       /\ threads' = [threads EXCEPT ![t] = ThreadResponse(t, TRUE)]
       /\ driver' = <<[driver[1] EXCEPT !.pcrs =
                          [i \in DOMAIN @ |->
                              (@[i] + threads[t].request.data[1]) % 256]]>>
       /\ UNCHANGED <<chain, blob, sent, built, request, response, reads,
                      calls, outcome, nitro, nsm, regs>>

\* The rest of the thread's call: the response is made from the shared
\* driver, borrowed shared, and returned to the thread.
Return ==
    /\ \E t \in Threads :
          \/ /\ threads[t].pc = "stamped"
             /\ \E to_vec_ok \in BOOLEAN :
                   threads' = [threads EXCEPT ![t] = ThreadResponse(t, to_vec_ok)]
          \/ /\ threads[t].pc = "called"
             /\ threads[t].request.type # "Attestation"
             /\ threads' = [threads EXCEPT ![t] = ThreadResponse(t, TRUE)]
    /\ UNCHANGED <<chain, blob, sent, driver, built, request, response, reads,
                   calls, outcome, nitro, nsm, regs>>

\* The i32 values nsm_init returns.
NsmFds == {-1, 3, 4}

\* Nitro::init(): Self(nsm_init())
NitroInit ==
    /\ nitro.pc = "none"
    /\ \E fd \in NsmFds :
          /\ nitro' = [pc |-> "live", fd |-> fd]
          /\ nsm' = Append(nsm, [op |-> "nsm_init", fd |-> fd])
    /\ UNCHANGED <<chain, blob, sent, driver, built, request, response, reads,
                   calls, outcome, threads, regs>>

\* impl Driver for Nitro: nsm_process_request(self.0, request).  The
\* caller's request is kept beside the forwarded one.
NitroProcessRequest ==
    /\ nitro.pc = "live"
    /\ Len(nsm) <= MaxCalls
    /\ \E req \in AttestationRequests \cup DescribePcrRequests
                  \cup {OtherRequest(type) : type \in OtherRequestTypes} :
          nsm' = Append(nsm, [op |-> "nsm_process_request", fd |-> nitro.fd,
                              request |-> req, asked |-> req])
    /\ UNCHANGED <<chain, blob, sent, driver, built, request, response, reads,
                   calls, outcome, threads, nitro, regs>>

\* A drop of a copy of the driver: nsm_exit(self.0) is called and a driver
\* with the same handle lives on.
NitroDropCopy ==
    /\ nitro.pc = "live"
    /\ Len(nsm) <= MaxCalls
    /\ nsm' = Append(nsm, [op |-> "nsm_exit", fd |-> nitro.fd])
    /\ UNCHANGED <<chain, blob, sent, driver, built, request, response, reads,
                   calls, outcome, threads, nitro, regs>>

\* impl Drop for Nitro: nsm_exit(self.0).  The driver is owned (it is
\* neither Clone nor Copy), so it is dropped once and not used afterwards.
NitroDrop ==
    /\ nitro.pc = "live"
    /\ nitro' = [pc |-> "dropped"]
    /\ nsm' = Append(nsm, [op |-> "nsm_exit", fd |-> nitro.fd])
    /\ UNCHANGED <<chain, blob, sent, driver, built, request, response, reads,
                   calls, outcome, threads, regs>>

\* Byte vectors a caller offers as a register: short, long, and 48 bytes.
ByteVecs ==
    {<<0, 0>>, <<PCR_LENGTH - 1, 1>>, <<PCR_LENGTH, 0>>, <<PCR_LENGTH, 1>>,
     <<PCR_LENGTH + 1, 1>>}

\* Seed maps (seed strings are numbered): each map over some of the first
\* and last register, and the two maps of tests::seed_is_deterministic.
SeedMaps ==
    UNION {[indexes -> {0, 1}] : indexes \in SUBSET {"Zero", "Eight"}}
        \cup {[index \in PCR_INDEXES |-> PcrIndexToUsize(index)],
              [index \in PCR_INDEXES |-> PcrIndexToUsize(index) + 1]}

\* Pcr::try_from(value)
PcrNew ==
    /\ regs.kind = "none"
    /\ \E value \in ByteVecs :
          regs' = [kind |-> "Pcr", value |-> value, res |-> PcrTryFrom(value)]
    /\ UNCHANGED <<chain, blob, sent, driver, built, request, response, reads,
                   calls, outcome, threads, nitro, nsm>>

\* PcrIndex::try_from(index)
PcrIndexNew ==
    /\ regs.kind = "none"
    /\ \E index \in IndexChoices :
          regs' = [kind |-> "PcrIndex", index |-> index,
                   res |-> PcrIndexTryFrom(index)]
    /\ UNCHANGED <<chain, blob, sent, driver, built, request, response, reads,
                   calls, outcome, threads, nitro, nsm>>

\* tests::seed_is_deterministic: Pcrs::seed of a map, twice, and of
\* another map.
SeedTwice ==
    /\ regs.kind = "none"
    /\ \E seed \in SeedMaps, alt_seed \in SeedMaps :
          regs' = [kind |-> "Seeds", seed |-> seed, alt_seed |-> alt_seed,
                   a |-> PcrsSeed(seed), b |-> PcrsSeed(seed),
                   c |-> PcrsSeed(alt_seed)]
    /\ UNCHANGED <<chain, blob, sent, driver, built, request, response, reads,
                   calls, outcome, threads, nitro, nsm>>

\* The public constructors of Pcrs (pcr.rs): zeros and default, rand,
\* seed, and the conversion from a map.
PcrsNew ==
    /\ regs.kind = "none"
    /\ \E made \in {"zeros", "default", "rand", "seed", "from"} :
          \E arg \in CASE made \in {"zeros", "default"} -> {<<>>}
                      [] made = "rand" -> [PCR_INDEXES -> {65, 66}]
                      [] made = "seed" -> SeedMaps
                      [] made = "from" -> PcrMaps :
             regs' = [kind |-> "Pcrs",
                      pcrs |-> CASE made \in {"zeros", "default"} -> PcrsZeros
                                 [] made = "rand" -> arg
                                 [] made = "seed" -> PcrsSeed(arg)
                                 [] made = "from" -> PcrsFrom(arg),
                      steps |-> 0,
                      last |-> [op |-> made, arg |-> arg]]
    /\ UNCHANGED <<chain, blob, sent, driver, built, request, response, reads,
                   calls, outcome, threads, nitro, nsm>>

\* The public constructors of the phony driver's Pcrs (phony/pcrs.rs);
\* seed and try_from make a Pcrs when they return Ok.
PhonyPcrsNew ==
    /\ regs.kind = "none"
    /\ \E made \in {"zeros", "default", "rand", "seed", "try_from"} :
          \E arg \in CASE made \in {"zeros", "default"} -> {<<>>}
                      [] made = "rand" -> [PHONY_PCR_INDEXES -> {65, 66}]
                      [] made = "seed" ->
                           UNION {[indexes -> {0, 1}] :
                                     indexes \in SUBSET {0, 5, 8}}
                      [] made = "try_from" -> PhonyPcrMaps :
             LET res == CASE made \in {"zeros", "default"} ->
                                [ok |-> TRUE, v |-> PhonyPcrsZeros]
                          [] made = "rand" -> [ok |-> TRUE, v |-> arg]
                          [] made = "seed" -> PhonyPcrsSeed(arg)
                          [] made = "try_from" -> PhonyPcrsTryFrom(arg)
             IN  /\ res.ok
                 /\ regs' = [kind |-> "PhonyPcrs", pcrs |-> res.v,
                             steps |-> 0,
                             last |-> [op |-> made, arg |-> arg]]
    /\ UNCHANGED <<chain, blob, sent, driver, built, request, response, reads,
                   calls, outcome, threads, nitro, nsm>>

\* The public constructors of the earliest revision's Pcrs; try_from makes
\* a Pcrs when every element is a Pcr.
LegacyPcrsNew ==
    /\ regs.kind = "none"
    /\ \E made \in {"zeros", "default", "rand", "seed", "try_from"} :
          \E arg \in CASE made \in {"zeros", "default"} -> {<<>>}
                      [] made = "rand" -> [0..(PCR_COUNT - 1) -> {65, 66}]
                      [] made = "seed" ->
                           {[index \in 0..(PCR_COUNT - 1) |-> index + d] :
                               d \in {0, 1}}
                      [] made = "try_from" ->
                           {[index \in 0..(PCR_COUNT - 1) |->
                                <<IF index = bad THEN PCR_LENGTH - 1
                                  ELSE PCR_LENGTH, index + 1>>] :
                               bad \in {0, PCR_COUNT}} :
             /\ \A index \in DOMAIN arg :
                   made = "try_from" => PcrTryFrom(arg[index]).ok
             /\ regs' = [kind |-> "LegacyPcrs",
                         pcrs |-> CASE made \in {"zeros", "default"} ->
                                         LegacyPcrsZeros
                                    [] made = "rand" -> arg
                                    [] made = "seed" ->
                                         [index \in DOMAIN arg |->
                                             Sha384(arg[index])]
                                    [] made = "try_from" ->
                                         [index \in DOMAIN arg |->
                                             PcrTryFrom(arg[index]).v],
                         steps |-> 0,
                         last |-> [op |-> made, arg |-> arg]]
    /\ UNCHANGED <<chain, blob, sent, driver, built, request, response, reads,
                   calls, outcome, threads, nitro, nsm>>

\* pcrs.checked_set(index, pcr) of the earliest revision
LegacyCheckedSet ==
    /\ regs.kind = "LegacyPcrs"
    /\ regs.steps < MaxSteps
    /\ \E index \in {0, PCR_COUNT - 1, PCR_COUNT, PCR_COUNT + 1},
          pcr \in {<<PCR_LENGTH, 1>>, <<PCR_LENGTH - 1, 2>>} :
          LET res == LegacyPcrsCheckedSet(regs.pcrs, index, pcr)
          IN  regs' = [regs EXCEPT !.pcrs = res.pcrs,
                                   !.steps = @ + 1,
                                   !.last = [op |-> "legacy_checked_set",
                                             index |-> index, pcr |-> pcr,
                                             res |-> [tag |-> res.tag,
                                                      kind |-> res.kind]]]
    /\ UNCHANGED <<chain, blob, sent, driver, built, request, response, reads,
                   calls, outcome, threads, nitro, nsm>>

\* pcrs.checked_get(index) of the earliest revision, as called and as
\* Phony::describe_pcr calls it.
LegacyCheckedGet ==
    /\ regs.kind = "LegacyPcrs"
    /\ regs.steps < MaxSteps
    /\ \E index \in {0, PCR_COUNT - 1, PCR_COUNT, PCR_COUNT + 1} :
          regs' = [regs EXCEPT
                      !.steps = @ + 1,
                      !.last = [op |-> "legacy_checked_get", index |-> index,
                                res |-> LegacyPcrsCheckedGet(regs.pcrs, index),
                                described |->
                                   LegacyDescribePcr(regs.pcrs, index)]]
    /\ UNCHANGED <<chain, blob, sent, driver, built, request, response, reads,
                   calls, outcome, threads, nitro, nsm>>

\* pcrs.set(index, pcr)
SetPcr ==
    /\ regs.kind = "Pcrs"
    /\ regs.steps < MaxSteps
    /\ \E index \in {"Zero", "Eight"}, pcr \in {0, 1} :
          regs' = [regs EXCEPT !.pcrs = PcrsSet(@, index, pcr),
                               !.steps = @ + 1,
                               !.last = [op |-> "set", index |-> index,
                                         pcr |-> pcr]]
    /\ UNCHANGED <<chain, blob, sent, driver, built, request, response, reads,
                   calls, outcome, threads, nitro, nsm>>

\* pcrs.get(index)
GetPcr ==
    /\ regs.kind = "Pcrs"
    /\ regs.steps < MaxSteps
    /\ \E index \in PCR_INDEXES :
          regs' = [regs EXCEPT !.steps = @ + 1,
                               !.last = [op |-> "get", index |-> index,
                                         res |-> PcrsGet(regs.pcrs, index)]]
    /\ UNCHANGED <<chain, blob, sent, driver, built, request, response, reads,
                   calls, outcome, threads, nitro, nsm>>

\* pcrs.checked_set(index, pcr)
CheckedSet ==
    /\ regs.kind = "PhonyPcrs"
    /\ regs.steps < MaxSteps
    /\ \E index \in {0, 5, 8, 9}, pcr \in {<<PCR_LENGTH, 1>>, <<PCR_LENGTH - 1, 2>>} :
          LET res == PhonyCheckedSet(regs.pcrs, index, pcr)
          IN  regs' = [regs EXCEPT !.pcrs = res.pcrs,
                                   !.steps = @ + 1,
                                   !.last = [op |-> "checked_set",
                                             index |-> index, pcr |-> pcr,
                                             ok |-> res.ok,
                                             before |-> regs.pcrs]]
    /\ UNCHANGED <<chain, blob, sent, driver, built, request, response, reads,
                   calls, outcome, threads, nitro, nsm>>

\* pcrs.checked_get(index)
CheckedGet ==
    /\ regs.kind = "PhonyPcrs"
    /\ regs.steps < MaxSteps
    /\ \E index \in {0, 5, 8, 9} :
          regs' = [regs EXCEPT !.steps = @ + 1,
                               !.last = [op |-> "checked_get", index |-> index,
                                         res |-> PhonyCheckedGet(regs.pcrs, index)]]
    /\ UNCHANGED <<chain, blob, sent, driver, built, request, response, reads,
                   calls, outcome, threads, nitro, nsm>>

\* The client verifies the document of an Attestation response.
ClientVerify ==
    /\ response # <<>>
    /\ response[1].type = "Attestation"
    /\ outcome = <<>>
    /\ \E root_cert \in RootChoices(chain[1]), time \in Times :
          Verified("current", response[1].document, root_cert, time,
                   from_cose(response[1].document, root_cert, time))
    /\ UNCHANGED <<chain, blob, sent, driver, request, response, reads, built, calls, threads, nitro, nsm, regs>>

\* Signer and verifier.
Next ==
    Generate \/ SignDoc \/ SignAny \/ Verify \/ LegacyVerify
        \/ LegacyVerifyChain

Spec == Init /\ [][Next]_vars

\* A signed document changed in flight.
NextTamper == Generate \/ SignBase \/ Tamper \/ VerifyTrusted

SpecTamper == Init /\ [][NextTamper]_vars

\* The development drivers and their client.
NextDriver ==
    Generate \/ BuildDevNitro \/ BuildPhony \/ ProcessRequest \/ ClientVerify

SpecDriver == Init /\ [][NextDriver]_vars

\* A development driver serving a sequence of requests.
NextCalls ==
    Generate \/ BuildDevNitro \/ BuildPhony \/ ProcessRequest \/ ProcessAnother

SpecCalls == Init /\ [][NextCalls]_vars

\* Threads sharing one development driver.
NextThreads == Generate \/ BuildDevNitro \/ BuildPhony \/ Enter \/ Stamp \/ Return

SpecThreads == Init /\ [][NextThreads]_vars

\* One lifetime of the hardware driver.
NextNitro == NitroInit \/ NitroProcessRequest \/ NitroDrop

SpecNitro == Init /\ [][NextNitro]_vars

\* The register data model.
NextPcrs ==
    \/ PcrNew \/ PcrIndexNew \/ SeedTwice
    \/ PcrsNew \/ SetPcr \/ GetPcr
    \/ PhonyPcrsNew \/ CheckedSet \/ CheckedGet
    \/ LegacyPcrsNew \/ LegacyCheckedSet \/ LegacyCheckedGet

SpecPcrs == Init /\ [][NextPcrs]_vars

(***************************************************************************)
(* Vocabulary of the properties.                                           *)
(***************************************************************************)
Max(S) == CHOOSE x \in S : \A y \in S : x >= y

\* The validity window of a generated chain: the seconds at which each of
\* its three certificates is valid.
ChainWindow(c) ==
    LET certs == {ParseCert(c.root), ParseCert(c.int),
                  ParseCert(c.end_signer.cert)}
    IN  [from |-> Max({x.nb : x \in certs}), to |-> Min({x.na : x \in certs})]

\* A time-source value (milliseconds) inside the window.
InWindow(c, time) ==
    /\ ChainWindow(c).from * MILLIS_PER_SEC <= time
    /\ time <= ChainWindow(c).to * MILLIS_PER_SEC

\* The document in flight is validly signed: it carries the chain's
\* end-entity certificate and, in its bundle, the chain's intermediate, and
\* was signed with the end-entity key.
ValidlySigned ==
    /\ sent # <<>>
    /\ sent[1].doc.certificate = chain[1].end_signer.cert
    /\ \E i \in 1..Len(sent[1].doc.cabundle) :
          sent[1].doc.cabundle[i] = chain[1].int
    /\ sent[1].key = chain[1].end_signer.signing_key

Verdict(rev) == outcome # <<>> /\ outcome[1].rev = rev

\* The seconds since the epoch at which a verifier run evaluates validity,
\* as the unit of its revision's time argument has it.
SecsOf(o) == IF o.rev = "current" THEN o.time \div MILLIS_PER_SEC ELSE o.time

\* Orders in which intermediates of a bundle of n certificates can be
\* chained.
Paths(n) ==
    UNION {{p \in [1..k -> 1..n] :
               \A a, b \in 1..k : a # b => p[a] # p[b]} : k \in 0..n}

\* The chain certificate -> bundle -> root verifies at secs, stated as the
\* existence of a certification path: parsable certificates with distinct
\* keys, every one valid at secs, a leaf followed by authorities, each
\* signed by the key of the next and the last by the key of the root.
PathVerifies(ee, ta, ints, secs, p) ==
    LET certs == <<ee>> \o [i \in 1..Len(p) |-> ParseCert(ints[p[i]])]
        n == 1 + Len(p)
    IN  /\ \A i \in 1..n : certs[i].ok
        /\ \A i \in 1..n : certs[i].nb <= secs /\ secs <= certs[i].na
        /\ certs[1].profile = ProfileLeaf
        /\ \A i \in 2..n : certs[i].profile # ProfileLeaf
        /\ \A i, j \in 1..n : i # j => certs[i].spki # certs[j].spki
        /\ \A i \in 1..(n - 1) :
              EcdsaVerify(certs[i + 1].spki, certs[i].tbs, certs[i].sig)
        /\ EcdsaVerify(ta.spki, certs[n].tbs, certs[n].sig)

ChainVerifies(doc, root_cert, secs) ==
    /\ ParseCert(doc.certificate).ok
    /\ ParseCert(root_cert).ok
    /\ \E p \in Paths(Len(doc.cabundle)) :
          PathVerifies(ParseCert(doc.certificate), ParseCert(root_cert),
                       doc.cabundle, secs, p)

\* The COSE signature verifies under the P-384 public key of the
\* document's certificate.
SignatureVerifies(bytes, doc) ==
    LET cose == CoseFromSlice(bytes)
        cert == ParseCert(doc.certificate)
    IN  /\ cert.ok
        /\ IsEcPublicKey(cert.spki)
        /\ IsP384Point(cert.spki)
        /\ cose.signature
              = EcdsaSign(cert.spki,
                          SigStructure(cose.alg, <<>>, cose.payload[1]))

\* The steps an input of the verifier does not pass, and the earliest of
\* them (0 when it passes all four).
CoseDecodes(o) ==
    CoseFromSlice(o.bytes).ok /\ CoseFromSlice(o.bytes).payload # None
DocDecodes(o) ==
    CoseDecodes(o) /\ from_binary(CoseFromSlice(o.bytes).payload[1]).ok
DecodedDoc(o) == from_binary(CoseFromSlice(o.bytes).payload[1]).doc
EarliestFailingStep(o) ==
    IF ~CoseDecodes(o) THEN 1
    ELSE IF ~DocDecodes(o) THEN 2
    ELSE IF ~ChainVerifies(DecodedDoc(o), o.root_cert, SecsOf(o)) THEN 3
    ELSE IF ~SignatureVerifies(o.bytes, DecodedDoc(o)) THEN 4
    ELSE 0

(***************************************************************************)
(* Properties of the signer and the verifier.                              *)
(***************************************************************************)
\* C1. Round trip: a document that carries the chain and is signed with the
\* end-entity key, verified against the chain's root certificate at a time
\* inside the chain's validity window, comes back Ok and equal to the
\* document signed, in every field.
RoundTrip ==
    (/\ Verdict("current")
     /\ ValidlySigned
     /\ outcome[1].root_cert = chain[1].root
     /\ InWindow(chain[1], outcome[1].time))
        => /\ outcome[1].res.tag = "Ok"
           /\ outcome[1].res.doc = sent[1].doc

RoundTripReached ==
    /\ Verdict("current")
    /\ ValidlySigned
    /\ outcome[1].root_cert = chain[1].root
    /\ InWindow(chain[1], outcome[1].time)
    /\ outcome[1].res.tag = "Ok"
    /\ outcome[1].res.doc.nonce = Some(<<7>>)
    /\ outcome[1].res.doc.public_key = Some(<<>>)
    /\ outcome[1].res.doc.user_data = None

\* C3. No false accept: from_cose answers Ok(doc) only when the bytes
\* decode as COSE_Sign1 with a payload, the payload decodes to doc, the
\* chain doc.certificate -> doc.cabundle -> root verifies at the caller's
\* time, and the signature verifies under the key of doc.certificate; and a
\* document signed with a key other than the key of its certificate is not
\* accepted.
NoFalseAccept ==
    (Verdict("current") /\ outcome[1].res.tag = "Ok")
        => /\ DocDecodes(outcome[1])
           /\ outcome[1].res.doc = DecodedDoc(outcome[1])
           /\ ChainVerifies(outcome[1].res.doc, outcome[1].root_cert,
                            outcome[1].time \div MILLIS_PER_SEC)
           /\ SignatureVerifies(outcome[1].bytes, outcome[1].res.doc)
           /\ sent[1].key = ParseCert(outcome[1].res.doc.certificate).spki

NoFalseAcceptReached ==
    /\ Verdict("current")
    /\ outcome[1].res.tag = "Ok"
    /\ sent[1].doc.cabundle = <<<<0>>, chain[1].int>>
    /\ outcome[1].root_cert = chain[1].int
    /\ ChainVerifies(outcome[1].res.doc, outcome[1].root_cert,
                     outcome[1].time \div MILLIS_PER_SEC)

\* A document signed with a key other than the key of its certificate is
\* rejected at the signature step, its chain having verified.
ForeignKeyRejected ==
    /\ Verdict("current")
    /\ sent[1].doc.certificate = chain[1].end_signer.cert
    /\ sent[1].key # chain[1].end_signer.signing_key
    /\ outcome[1].root_cert = chain[1].root
    /\ outcome[1].res.tag = "Err"
    /\ outcome[1].res.step = 4
    /\ outcome[1].res.kind = "Verification"

\* C4. Step ordering, in both revisions of from_cose: the answer is Ok when
\* the input passes the four steps, and otherwise the error of the earliest
\* step the input fails.
StepOrder ==
    outcome # <<>>
        => IF EarliestFailingStep(outcome[1]) = 0
           THEN outcome[1].res.tag = "Ok"
           ELSE /\ outcome[1].res.tag = "Err"
                /\ outcome[1].res.step = EarliestFailingStep(outcome[1])

\* The same of the current revision alone.
StepOrderCurrent == Verdict("current") => StepOrder

\* The earlier revision aborts on an input that fails the chain step and
\* would fail the signature step.
LegacyAborts ==
    /\ Verdict("legacy")
    /\ EarliestFailingStep(outcome[1]) = 3
    /\ ~SignatureVerifies(outcome[1].bytes, DecodedDoc(outcome[1]))
    /\ outcome[1].res.tag = "Panic"

\* The current revision answers such an input with the error of the chain
\* step.
ChainErrorFirst ==
    /\ Verdict("current")
    /\ EarliestFailingStep(outcome[1]) = 3
    /\ ~SignatureVerifies(outcome[1].bytes, DecodedDoc(outcome[1]))
    /\ outcome[1].res.tag = "Err"
    /\ outcome[1].res.step = 3

\* C5 as stated: against a parsable root certificate other than the
\* chain's, a validly signed document fails with the root-certificate or
\* the chain-verification kind.
UntrustedRootAnyOther ==
    (/\ Verdict("current")
     /\ ValidlySigned
     /\ ParseCert(outcome[1].root_cert).ok
     /\ outcome[1].root_cert # chain[1].root)
        => /\ outcome[1].res.tag = "Err"
           /\ outcome[1].res.kind \in {"InvalidRootCertificate", "Verification"}

\* C5. Untrusted root: against a parsable root certificate whose key is
\* neither the key of the chain's root nor the key of the chain's
\* intermediate, a validly signed document fails at the chain step with the
\* chain-verification kind.
UntrustedRoot ==
    (/\ Verdict("current")
     /\ ValidlySigned
     /\ ParseCert(outcome[1].root_cert).ok
     /\ ParseCert(outcome[1].root_cert).spki
           \notin {ParseCert(chain[1].root).spki, ParseCert(chain[1].int).spki})
        => /\ outcome[1].res.tag = "Err"
           /\ outcome[1].res.step = 3
           /\ outcome[1].res.kind = "Verification"

UntrustedRootReached ==
    /\ Verdict("current")
    /\ ValidlySigned
    /\ outcome[1].root_cert = build_cert(ProfileRoot, 4, 4, 0, LastSec)
    /\ InWindow(chain[1], outcome[1].time)
    /\ outcome[1].res.tag = "Err"
    /\ outcome[1].res.kind = "Verification"

\* C6 as stated: at a time-source value after the end of the chain's
\* validity window, a validly signed document fails at the chain step.
ExpiredAfterWindowEnd ==
    (/\ Verdict("current")
     /\ ValidlySigned
     /\ outcome[1].root_cert = chain[1].root
     /\ outcome[1].time > ChainWindow(chain[1]).to * MILLIS_PER_SEC)
        => /\ outcome[1].res.tag = "Err"
           /\ outcome[1].res.step = 3

\* C6. Expired chain: against the chain's root, at a time-source value
\* whose whole seconds lie after the notAfter of the end-entity certificate
\* or of the intermediate, a validly signed document fails at the chain
\* step.
ExpiredChain ==
    (/\ Verdict("current")
     /\ ValidlySigned
     /\ outcome[1].root_cert = chain[1].root
     /\ outcome[1].time \div MILLIS_PER_SEC
           > Min({ParseCert(chain[1].int).na,
                  ParseCert(chain[1].end_signer.cert).na}))
        => /\ outcome[1].res.tag = "Err"
           /\ outcome[1].res.step = 3
           /\ outcome[1].res.kind = "Verification"

ExpiredChainReached ==
    /\ Verdict("current")
    /\ ValidlySigned
    /\ outcome[1].root_cert = chain[1].root
    /\ outcome[1].time \div MILLIS_PER_SEC
          = 1 + ParseCert(chain[1].end_signer.cert).na
    /\ outcome[1].res.tag = "Err"
    /\ outcome[1].res.step = 3

\* The document in flight had one byte of its payload changed.
Tampered == sent # <<>> /\ sent[1].flipped # 0

\* C2 as stated: a validly signed document with one payload byte changed
\* fails with the kind of the signature verification.
TamperSignatureKind ==
    (Verdict("current") /\ Tampered /\ ValidlySigned)
        => /\ outcome[1].res.tag = "Err"
           /\ outcome[1].res.kind = "Verification"

\* C2. Tampering: a validly signed document with one payload byte changed
\* is never accepted; it fails at the document decode with
\* InvalidAttestationDoc, or at the chain step with InvalidEndCertificate
\* or Verification, or, when the changed payload still decodes and its
\* chain still verifies, at the signature step with Verification.
TamperRejected ==
    (Verdict("current") /\ Tampered /\ ValidlySigned)
        => /\ outcome[1].res.tag = "Err"
           /\ outcome[1].res.step \in {2, 3, 4}
           /\ outcome[1].res.step = 2
                 => outcome[1].res.kind = "InvalidAttestationDoc"
           /\ outcome[1].res.step = 3
                 => outcome[1].res.kind
                       \in {"InvalidEndCertificate", "Verification"}
           /\ outcome[1].res.step = 4 => outcome[1].res.kind = "Verification"
           /\ (/\ DocDecodes(outcome[1])
               /\ ChainVerifies(DecodedDoc(outcome[1]), outcome[1].root_cert,
                                outcome[1].time \div MILLIS_PER_SEC))
                 => outcome[1].res.step = 4

TamperRejectedReached ==
    /\ Verdict("current")
    /\ Tampered
    /\ ValidlySigned
    /\ InWindow(chain[1], outcome[1].time)
    /\ outcome[1].res.tag = "Err"
    /\ outcome[1].res.step = 4
    /\ outcome[1].res.kind = "Verification"

(***************************************************************************)
(* Properties of the development drivers.                                  *)
(***************************************************************************)
Answered(type) ==
    /\ response # <<>>
    /\ request[1].type = type

\* The document inside an Attestation response, undone from its framing.
ResponseDoc ==
    from_binary(CoseFromSlice(response[1].document).payload[1]).doc

NonceBinding ==
    (Answered("Attestation") /\ response[1].type = "Attestation")
        => /\ ResponseDoc.nonce = request[1].nonce
           /\ ResponseDoc.user_data = request[1].user_data
           /\ ResponseDoc.public_key = request[1].public_key

NonceBindingReached ==
    /\ Answered("Attestation")
    /\ response[1].type = "Attestation"
    /\ request[1].nonce = Some(<<7>>)
    /\ request[1].user_data = None
    /\ request[1].public_key = Some(<<>>)
    /\ ResponseDoc.nonce = Some(<<7>>)
    /\ ResponseDoc.user_data = None

\* The bytes configured for the register of index i (a usize).
Configured(d, i) ==
    IF d.kind = "DevNitro" THEN PcrToVec(d.pcrs[PcrIndexTryFrom(i).v])
    ELSE PcrToVec(d.pcrs[i])

\* C9. DescribePCR, of every development driver: index 0, 1, 2, 3, 4 or 8
\* is answered DescribePCR{lock: true, data: the register's 48 bytes}, any
\* other index Error(InvalidIndex).
DescribePcrAnswer ==
    Answered("DescribePCR")
        => IF request[1].index \in {0, 1, 2, 3, 4, 8}
           THEN /\ response[1].type = "DescribePCR"
                /\ response[1].lock
                /\ response[1].data = Configured(driver[1], request[1].index)
                /\ response[1].data[1] = PCR_LENGTH
           ELSE /\ response[1].type = "Error"
                /\ response[1].code = "InvalidIndex"

\* The same of DevNitro alone.
DescribePcrAnswerDevNitro ==
    (driver # <<>> /\ driver[1].kind = "DevNitro") => DescribePcrAnswer

\* A phony driver whose registers came from a map without register 0
\* answers DescribePCR{0} with Error(InvalidIndex).
PhonyRegisterMissing ==
    /\ Answered("DescribePCR")
    /\ driver[1].kind = "Phony"
    /\ request[1].index = 0
    /\ 0 \notin DOMAIN driver[1].pcrs
    /\ response[1].type = "Error"
    /\ response[1].code = "InvalidIndex"

\* C10. Dispatch: Error(InvalidOperation) answers every request that is
\* neither Attestation nor DescribePCR, and no request that is.
Dispatch ==
    response # <<>>
        => (request[1].type \notin {"Attestation", "DescribePCR"}
               <=> (/\ response[1].type = "Error"
                    /\ response[1].code = "InvalidOperation"))

DispatchReached ==
    /\ response # <<>>
    /\ driver[1].kind = "DevNitro"
    /\ request[1].type = "GetRandom"
    /\ response[1].type = "Error"
    /\ response[1].code = "InvalidOperation"

\* C11. Attestation of the development driver: when signing succeeds the
\* response is Attestation{document}, and the document has the module id
\* of the development driver, digest SHA-384, the timestamp the time
\* source returned during the request, the configured registers (each
\* of the six, 48 bytes), the configured end-entity certificate and the
\* configured bundle; the response is Error(InternalError) exactly when
\* signing fails.
AttestationDocument ==
    (Answered("Attestation") /\ driver[1].kind = "DevNitro")
        => /\ reads[1].to_vec_ok
                => /\ response[1].type = "Attestation"
                   /\ ResponseDoc.module_id = DEV_MODULE_ID
                   /\ ResponseDoc.digest = SHA384
                   /\ ResponseDoc.timestamp = reads[1].timestamp
                   /\ DOMAIN ResponseDoc.pcrs = {0, 1, 2, 3, 4, 8}
                   /\ \A index \in PCR_INDEXES :
                         ResponseDoc.pcrs[PcrIndexToUsize(index)]
                             = <<PCR_LENGTH, driver[1].pcrs[index]>>
                   /\ ResponseDoc.certificate = driver[1].end_cert
                   /\ ResponseDoc.cabundle = driver[1].ca_bundle
           /\ (response[1].type = "Error" /\ response[1].code = "InternalError")
                <=> ~reads[1].to_vec_ok
           /\ response[1].type \in {"Attestation", "Error"}

AttestationDocumentReached ==
    /\ Answered("Attestation")
    /\ driver[1].kind = "DevNitro"
    /\ reads[1].to_vec_ok
    /\ reads[1].timestamp = 1999
    /\ response[1].type = "Attestation"
    /\ ResponseDoc.timestamp = 1999
    /\ ResponseDoc.pcrs[8] = <<PCR_LENGTH, 9>>
    /\ ResponseDoc.cabundle = <<chain[1].int>>

\* The encoder fails and the driver answers Error(InternalError).
SigningFails ==
    /\ Answered("Attestation")
    /\ driver[1].kind = "DevNitro"
    /\ ~reads[1].to_vec_ok
    /\ response[1] = ErrorResponse("InternalError")

\* C12. Statelessness: after any sequence of process_request calls the
\* driver's signing key, end-entity certificate, bundle and registers are
\* those its builder returned, and the response to the latest request is a
\* function of that request, the build-time configuration and what the
\* driver read while serving it (the time source's value; the encoder's
\* outcome, which the document determines), whatever was requested before.
Stateless ==
    driver # <<>>
        => /\ driver[1].signing_key = built[1].signing_key
           /\ driver[1].end_cert = built[1].end_cert
           /\ driver[1].ca_bundle = built[1].ca_bundle
           /\ driver[1].pcrs = built[1].pcrs
           /\ response # <<>>
                => response[1] = process_request(built[1], request[1],
                                                 reads[1].timestamp,
                                                 reads[1].to_vec_ok)

StatelessReached ==
    /\ calls = MaxCalls
    /\ driver = built
    /\ driver[1].kind = "DevNitro"
    /\ driver[1].pcrs["Zero"] = 1
    /\ Answered("DescribePCR")
    /\ request[1].index = 0
    /\ response[1] = [type |-> "DescribePCR", lock |-> TRUE,
                      data |-> <<PCR_LENGTH, 1>>]

\* C13. Concurrent calls: however the calls of the threads that share a
\* driver interleave, the response a thread's call returns is the one the
\* call makes alone on the driver as built, and the driver is as built
\* throughout.
Concurrent ==
    driver # <<>>
        => /\ driver = built
           /\ \A t \in Threads :
                 threads[t].pc = "returned"
                     => threads[t].response
                            = process_request(built[1], threads[t].request,
                                              threads[t].timestamp,
                                              threads[t].to_vec_ok)

ConcurrentReached ==
    /\ threads[1].pc = "returned"
    /\ threads[1].request.type = "ExtendPCR"
    /\ threads[1].response = ErrorResponse("InvalidOperation")
    /\ threads[2].pc = "returned"
    /\ threads[2].request.type = "DescribePCR"
    /\ driver[1].pcrs[IF driver[1].kind = "DevNitro" THEN "Zero" ELSE 0] = 1
    /\ threads[2].response = [type |-> "DescribePCR", lock |-> TRUE,
                              data |-> <<PCR_LENGTH, 1>>]

\* C14. Handle lifecycle of the hardware driver: the first call to the
\* enclave interface is the one nsm_init of construction and there is no
\* other; every process_request is forwarded with the handle that nsm_init
\* returned and the caller's request unchanged, before any release; a
\* dropped driver has made exactly one nsm_exit, with that handle, as the
\* last call; a live driver has made none.
HandleLifecycle ==
    LET Ops(op) == {i \in 1..Len(nsm) : nsm[i].op = op}
    IN  /\ nitro.pc = "none" <=> nsm = <<>>
        /\ nsm # <<>>
             => /\ Ops("nsm_init") = {1}
                /\ \A i \in Ops("nsm_process_request") :
                      /\ nsm[i].fd = nsm[1].fd
                      /\ nsm[i].request = nsm[i].asked
                      /\ \A j \in Ops("nsm_exit") : i < j
                /\ \A j \in Ops("nsm_exit") :
                      nsm[j].fd = nsm[1].fd /\ j = Len(nsm)
                /\ nitro.pc = "live" => nitro.fd = nsm[1].fd /\ Ops("nsm_exit") = {}
                /\ nitro.pc = "dropped" => Ops("nsm_exit") = {Len(nsm)}

HandleLifecycleReached ==
    /\ nitro.pc = "dropped"
    /\ Len(nsm) = 4
    /\ nsm[1] = [op |-> "nsm_init", fd |-> 3]
    /\ nsm[2].op = "nsm_process_request" /\ nsm[2].fd = 3
    /\ nsm[3].op = "nsm_process_request" /\ nsm[3].fd = 3
    /\ nsm[3].request.type = "Attestation"
    /\ nsm[4] = [op |-> "nsm_exit", fd |-> 3]

\* C15. Pcr length: Pcr::try_from(value) is Ok exactly when value has 48
\* bytes, the Pcr then holds those bytes; for every other length it is the
\* length error.
PcrLength ==
    regs.kind = "Pcr"
        => /\ regs.res.ok <=> regs.value[1] = 48
           /\ regs.res.ok => PcrToVec(regs.res.v) = regs.value
           /\ ~regs.res.ok => regs.res.kind = "A PCR must have a length of 48."

PcrLengthReached ==
    /\ regs.kind = "Pcr"
    /\ regs.value = <<49, 1>>
    /\ ~regs.res.ok

\* C16. Always fully populated: every Pcrs made by a public constructor
\* and any set or checked_set calls after it has a register for each of
\* the six indices 0, 1, 2, 3, 4, 8 and for no other, so that the lookup
\* of a valid index succeeds.
FullyPopulated ==
    /\ regs.kind = "Pcrs" => DOMAIN regs.pcrs = PCR_INDEXES
    /\ regs.kind = "PhonyPcrs"
         => /\ DOMAIN regs.pcrs = {0, 1, 2, 3, 4, 8}
            /\ \A index \in {0, 1, 2, 3, 4, 8} :
                  PhonyCheckedGet(regs.pcrs, index).ok

\* The same of the Pcrs of pcr.rs alone.
FullyPopulatedCurrent ==
    regs.kind = "Pcrs"
        => /\ {PcrIndexToUsize(index) : index \in DOMAIN regs.pcrs}
                 = {0, 1, 2, 3, 4, 8}
           /\ regs.last.op = "get" => regs.last.res = regs.pcrs[regs.last.index]

\* A phony Pcrs converted from a map with register 0 alone, after a
\* checked_set of register 8, has no register 1, and the lookup of
\* register 1 fails.
PartiallyPopulated ==
    /\ regs.kind = "PhonyPcrs"
    /\ regs.last.op = "checked_set"
    /\ regs.last.ok
    /\ DOMAIN regs.pcrs = {0, 8}
    /\ PhonyCheckedGet(regs.pcrs, 1)
           = [ok |-> FALSE, kind |-> "Failed to index PCR"]

\* C17. checked_set / checked_get round trip: for every Pcrs of the phony
\* driver, every index i of 0, 1, 2, 3, 4, 8 and every 48-byte value v,
\* checked_get(i) succeeds, checked_set(i, v) succeeds, and checked_get(i)
\* made afterwards returns v.
CheckedRoundTrip ==
    regs.kind = "PhonyPcrs"
        => \A i \in {0, 1, 2, 3, 4, 8} :
              \A v \in {value \in ByteVecs : value[1] = 48} :
                 LET set == PhonyCheckedSet(regs.pcrs, i, v)
                 IN  /\ PhonyCheckedGet(regs.pcrs, i).ok
                     /\ set.ok
                     /\ PhonyCheckedGet(set.pcrs, i) = [ok |-> TRUE, v |-> v]

\* The part that holds: checked_set(i, v) succeeds and a checked_get(i)
\* made afterwards returns v.
CheckedSetThenGet ==
    regs.kind = "PhonyPcrs"
        => \A i \in {0, 1, 2, 3, 4, 8} :
              \A v \in {value \in ByteVecs : value[1] = 48} :
                 LET set == PhonyCheckedSet(regs.pcrs, i, v)
                 IN  /\ set.ok
                     /\ PhonyCheckedGet(set.pcrs, i) = [ok |-> TRUE, v |-> v]

\* checked_get(8) of a Pcrs seeded for register 0 alone fails.
CheckedGetFails ==
    /\ regs.kind = "PhonyPcrs"
    /\ regs.last.op = "checked_get"
    /\ regs.last.index = 8
    /\ DOMAIN regs.pcrs = {0}
    /\ regs.pcrs[0] = Sha384(1)
    /\ regs.last.res = [ok |-> FALSE, kind |-> "Failed to index PCR"]

CheckedSetFrame ==
    regs.kind = "PhonyPcrs"
        => /\ \A i \in IndexChoices, v \in ByteVecs :
                 LET set == PhonyCheckedSet(regs.pcrs, i, v)
                 IN  /\ set.ok <=> (i \in {0, 1, 2, 3, 4, 8} /\ v[1] = 48)
                     /\ ~set.ok => set.pcrs = regs.pcrs
                     /\ set.ok
                          => /\ DOMAIN set.pcrs = DOMAIN regs.pcrs \cup {i}
                             /\ \A j \in DOMAIN regs.pcrs \ {i} :
                                   set.pcrs[j] = regs.pcrs[j]
           /\ regs.last.op = "checked_set"
                => /\ ~regs.last.ok => regs.pcrs = regs.last.before
                   /\ regs.last.ok
                        => /\ regs.pcrs[regs.last.index] = regs.last.pcr[2]
                           /\ \A j \in DOMAIN regs.pcrs \ {regs.last.index} :
                                 /\ j \in DOMAIN regs.last.before
                                 /\ regs.pcrs[j] = regs.last.before[j]

CheckedSetFrameReached ==
    /\ regs.kind = "PhonyPcrs"
    /\ regs.last.op = "checked_set"
    /\ regs.last.index = 0
    /\ regs.last.pcr = <<47, 2>>
    /\ ~regs.last.ok
    /\ regs.last.before = (0 :> 1 @@ 8 :> 1)
    /\ regs.pcrs = regs.last.before

OmittedAreZeros ==
    /\ (regs.kind = "Pcrs" /\ regs.last.op = "seed")
         => \A index \in PCR_INDEXES :
               regs.pcrs[index] = IF index \in DOMAIN regs.last.arg
                                  THEN Sha384(regs.last.arg[index]) ELSE 0
    /\ (regs.kind = "Pcrs" /\ regs.last.op = "from")
         => \A index \in PCR_INDEXES :
               regs.pcrs[index] = IF index \in DOMAIN regs.last.arg
                                  THEN regs.last.arg[index] ELSE 0
    /\ (regs.kind = "PhonyPcrs" /\ regs.last.op = "seed")
         => \A index \in {0, 1, 2, 3, 4, 8} :
               /\ index \in DOMAIN regs.pcrs
               /\ regs.pcrs[index] = IF index \in DOMAIN regs.last.arg
                                     THEN Sha384(regs.last.arg[index]) ELSE 0

\* The same of pcr.rs alone.
OmittedAreZerosCurrent ==
    regs.kind = "Pcrs" => OmittedAreZeros

\* The phony Pcrs::seed of a map with register 8 alone has no register 0.
SeedOmitsRegister ==
    /\ regs.kind = "PhonyPcrs"
    /\ regs.last = [op |-> "seed", arg |-> (8 :> 1)]
    /\ regs.pcrs = (8 :> Sha384(1))
    /\ 0 \notin DOMAIN regs.pcrs

\* C22. PCR wire map: the conversion of every Pcrs to the document's map
\* from index to bytes has exactly the keys 0, 1, 2, 3, 4, 8, and the
\* value at each key is the 48 bytes of the register of that index.
WireMap ==
    /\ regs.kind = "Pcrs"
         => /\ DOMAIN PcrsInto(regs.pcrs) = {0, 1, 2, 3, 4, 8}
            /\ \A index \in PCR_INDEXES :
                  PcrsInto(regs.pcrs)[PcrIndexToUsize(index)]
                      = <<48, regs.pcrs[index]>>
    /\ regs.kind = "LegacyPcrs"
         => /\ DOMAIN LegacyPcrsInto(regs.pcrs) = {0, 1, 2, 3, 4, 8}
            /\ \A index \in DOMAIN regs.pcrs :
                  LegacyPcrsInto(regs.pcrs)[index] = <<48, regs.pcrs[index]>>

\* The same of pcr.rs alone.
WireMapCurrent ==
    regs.kind = "Pcrs" => WireMap

\* The wire map of the earliest revision's Pcrs::zeros has the keys 5, 6
\* and 7 and no key 8.
WireMapDense ==
    /\ regs.kind = "LegacyPcrs"
    /\ regs.last.op = "zeros"
    /\ DOMAIN LegacyPcrsInto(regs.pcrs) = 0..7
    /\ LegacyPcrsInto(regs.pcrs)[5] = <<48, 0>>

\* C23. Failures are values: for every document, root certificate and
\* time, from_cose returns Ok or an error and does not abort the caller; a
\* chain that fails verification is answered with an error.
FailuresAreValues ==
    outcome # <<>>
        => /\ outcome[1].res.tag \in {"Ok", "Err"}
           /\ EarliestFailingStep(outcome[1]) = 3
                => outcome[1].res.tag = "Err" /\ outcome[1].res.step = 3

\* The same of the current revision alone.
FailuresAreValuesCurrent ==
    Verdict("current") => FailuresAreValues

\* The earlier revision aborts on a validly signed document verified
\* against the root of another authority.
LegacyAbortsOnUntrustedRoot ==
    /\ Verdict("legacy")
    /\ ValidlySigned
    /\ outcome[1].bytes = blob
    /\ sent[1].flipped = 0
    /\ outcome[1].root_cert = build_cert(ProfileRoot, 4, 4, 0, LastSec)
    /\ outcome[1].res.tag = "Panic"

\* C24. Time unit: validity is evaluated at the instant t milliseconds
\* after the epoch, t being the value of the caller's time source: a validly
\* signed document whose chain is valid from second a to second b, verified
\* against the chain's root, is accepted for every t with
\* 1000*a <= t <= 1000*b and rejected for every t > 1000*b + 999.
TimeUnit ==
    (/\ outcome # <<>>
     /\ ValidlySigned
     /\ outcome[1].bytes = blob
     /\ sent[1].flipped = 0
     /\ outcome[1].root_cert = chain[1].root
     /\ \A der \in {chain[1].root, chain[1].int, chain[1].end_signer.cert} :
           /\ ParseCert(der).nb = ChainWindow(chain[1]).from
           /\ ParseCert(der).na = ChainWindow(chain[1]).to)
        => LET a == ChainWindow(chain[1]).from
               b == ChainWindow(chain[1]).to
               t == outcome[1].time
           IN  /\ (MILLIS_PER_SEC * a <= t /\ t <= MILLIS_PER_SEC * b)
                     => outcome[1].res.tag = "Ok"
               /\ t > MILLIS_PER_SEC * b + 999 => outcome[1].res.tag # "Ok"

\* The same of the current revision alone.
TimeUnitCurrent ==
    Verdict("current") => TimeUnit

\* The earlier revision reads the value of a millisecond time source that
\* lies inside the chain's window as seconds, and does not accept.
LegacyReadsSeconds ==
    /\ Verdict("legacy")
    /\ ValidlySigned
    /\ outcome[1].bytes = blob
    /\ sent[1].flipped = 0
    /\ outcome[1].root_cert = chain[1].root
    /\ ParseCert(chain[1].root).na = ParseCert(chain[1].end_signer.cert).na
    /\ InWindow(chain[1], outcome[1].time)
    /\ SecsOf(outcome[1]) > ChainWindow(chain[1]).to
    /\ outcome[1].res.tag # "Ok"

RevocationHook ==
    (/\ Verdict("legacy_chain")
     /\ ValidlySigned
     /\ outcome[1].root_cert = chain[1].root)
        => LET o == outcome[1]
               int == ParseCert(chain[1].int)
               end == ParseCert(chain[1].end_signer.cert)
           IN  /\ (/\ o.crls # None
                   /\ \E cert \in {int, end} :
                         CrlStatus(o.crls[1], cert) # "good")
                     => o.res.tag = "Err" /\ o.res.step = 3
               /\ o.crls = None
                     => (o.res.tag = "Ok")
                           = verify_for_usage(end,
                                              ParseCert(o.root_cert).spki,
                                              sent[1].doc.cabundle, o.time)

\* With a list supplied, a chain with a revoked or unknown certificate is
\* never accepted.
RevocationHookRejects ==
    (/\ Verdict("legacy_chain")
     /\ ValidlySigned
     /\ outcome[1].crls # None
     /\ \E cert \in {ParseCert(chain[1].int),
                      ParseCert(chain[1].end_signer.cert)} :
           CrlStatus(outcome[1].crls[1], cert) # "good")
        => outcome[1].res.tag # "Ok"

\* The chain verifier aborts on a chain inside its validity whose
\* intermediate certificate the root's list revokes.
RevokedAborts ==
    /\ Verdict("legacy_chain")
    /\ ValidlySigned
    /\ outcome[1].root_cert = chain[1].root
    /\ outcome[1].crls # None
    /\ Len(outcome[1].crls[1]) = 2
    /\ CrlStatus(outcome[1].crls[1], ParseCert(chain[1].int)) = "revoked"
    /\ CrlStatus(outcome[1].crls[1], ParseCert(chain[1].end_signer.cert))
          = "good"
    /\ verify_for_usage(ParseCert(chain[1].end_signer.cert),
                        ParseCert(chain[1].root).spki,
                        sent[1].doc.cabundle, outcome[1].time)
    /\ outcome[1].res.tag = "Panic"

\* C27. Chain-step error kinds: in the chain step of from_cose an
\* unparsable embedded end-entity certificate gives the end-certificate
\* kind (also when the root is unparsable too); otherwise an unparsable
\* root gives the root-certificate kind; otherwise a chain that does not
\* verify gives the generic verification kind.
ChainStepKinds ==
    (Verdict("current") /\ DocDecodes(outcome[1]))
        => LET o == outcome[1]
               doc == DecodedDoc(o)
           IN  IF ~ParseCert(doc.certificate).ok
               THEN o.res = Err("InvalidEndCertificate", 3)
               ELSE IF ~ParseCert(o.root_cert).ok
                    THEN o.res = Err("InvalidRootCertificate", 3)
               ELSE IF ~ChainVerifies(doc, o.root_cert, SecsOf(o))
                    THEN o.res = Err("Verification", 3)
               ELSE o.res.step = 4

\* Both the end-entity certificate and the root are unparsable, and the
\* end-certificate kind is the one reported.
ChainStepKindsReached ==
    /\ Verdict("current")
    /\ DocDecodes(outcome[1])
    /\ ~ParseCert(DecodedDoc(outcome[1]).certificate).ok
    /\ ~ParseCert(outcome[1].root_cert).ok
    /\ outcome[1].res = Err("InvalidEndCertificate", 3)

\* The three kinds of the chain step are each returned.
ChainStepRootKind ==
    /\ Verdict("current")
    /\ ParseCert(DecodedDoc(outcome[1]).certificate).ok
    /\ outcome[1].res = Err("InvalidRootCertificate", 3)

\* C28. Key type check: when the chain verifies but the public key of the
\* document's end-entity certificate is not an EC public key, or is not a
\* point of P-384, from_cose fails with the attestation-document kind at
\* the signature step, whatever the signature is.
KeyTypeCheck ==
    (/\ Verdict("current")
     /\ DocDecodes(outcome[1])
     /\ ChainVerifies(DecodedDoc(outcome[1]), outcome[1].root_cert,
                      SecsOf(outcome[1]))
     /\ LET key == ParseCert(DecodedDoc(outcome[1]).certificate).spki
        IN  ~IsEcPublicKey(key) \/ ~IsP384Point(key))
        => outcome[1].res = Err("InvalidAttestationDoc", 4)

\* A document whose certificate, issued by the chain's intermediate,
\* carries an RSA key: the chain verifies and the key is refused.
KeyTypeCheckReached ==
    /\ Verdict("current")
    /\ DocDecodes(outcome[1])
    /\ ChainVerifies(DecodedDoc(outcome[1]), outcome[1].root_cert,
                     SecsOf(outcome[1]))
    /\ ParseCert(DecodedDoc(outcome[1]).certificate).spki \in RsaKeys
    /\ outcome[1].res = Err("InvalidAttestationDoc", 4)

\* The same for an EC key that is not a point of P-384.
KeyTypeCheckOtherCurve ==
    /\ Verdict("current")
    /\ ChainVerifies(DecodedDoc(outcome[1]), outcome[1].root_cert,
                     SecsOf(outcome[1]))
    /\ ParseCert(DecodedDoc(outcome[1]).certificate).spki \in OtherEcKeys
    /\ outcome[1].res = Err("InvalidAttestationDoc", 4)

\* C29. Signer output: the bytes sign(d, k) returns decode to a COSE_Sign1
\* whose protected header names ES384, whose payload is the CBOR encoding
\* of d, and whose signature is k's signature over the Sig_structure with
\* empty external data; sign fails exactly when the COSE encoding fails.
SignerOutput ==
    (blob # <<>> /\ sent[1].flipped = 0)
        => LET d == sent[1].doc
               k == sent[1].key
               cose == CoseFromSlice(blob)
           IN  /\ cose.ok
               /\ cose.alg = ES384
               /\ cose.payload = Some(to_binary(d))
               /\ cose.signature
                     = EcdsaSign(k, <<ES384>> \o EncBytes(<<>>)
                                      \o EncBytes(to_binary(d)))
               /\ \A to_vec_ok \in BOOLEAN :
                     /\ sign(d, k, to_vec_ok).ok = to_vec_ok
                     /\ to_vec_ok => sign(d, k, to_vec_ok).bytes = blob

\* A document signed with a key other than that of its certificate, its
\* optional fields absent.
SignerOutputReached ==
    /\ blob # <<>>
    /\ sent[1].flipped = 0
    /\ CoseFromSlice(blob).ok
    /\ sent[1].key # chain[1].end_signer.signing_key
    /\ sent[1].doc.certificate = chain[1].end_signer.cert

\* C30. checked_get and checked_set are total: for every index, the
\* register count (8) and every larger one included, and for every value,
\* each call returns Ok or an error and does not abort; nor does
\* describe_pcr, which calls checked_get.
CheckedTotal ==
    regs.kind = "LegacyPcrs"
        => \A index \in 0..(PCR_COUNT + 2) :
              /\ LegacyPcrsCheckedGet(regs.pcrs, index).tag \in {"Ok", "Err"}
              /\ LegacyDescribePcr(regs.pcrs, index).type
                    \in {"DescribePCR", "Error"}
              /\ \A pcr \in ByteVecs :
                    LegacyPcrsCheckedSet(regs.pcrs, index, pcr).tag
                       \in {"Ok", "Err"}

\* Every index other than the register count is answered with Ok or an
\* error.
CheckedTotalButCount ==
    regs.kind = "LegacyPcrs"
        => \A index \in (0..(PCR_COUNT + 2)) \ {PCR_COUNT} :
              /\ LegacyPcrsCheckedGet(regs.pcrs, index).tag
                    = IF index < PCR_COUNT THEN "Ok" ELSE "Err"
              /\ \A pcr \in ByteVecs :
                    LegacyPcrsCheckedSet(regs.pcrs, index, pcr).tag
                       = IF index < PCR_COUNT /\ pcr[1] = PCR_LENGTH
                         THEN "Ok" ELSE "Err"

\* checked_set with the register count as index and a value of 48 bytes
\* aborts, and so does the checked_get that follows.
CheckedAborts ==
    /\ regs.kind = "LegacyPcrs"
    /\ regs.steps > 1
    /\ regs.last.op = "legacy_checked_get"
    /\ regs.last.index = PCR_COUNT
    /\ regs.last.res.tag = "Panic"
    /\ regs.last.described.type = "Panic"
    /\ LegacyPcrsCheckedSet(regs.pcrs, PCR_COUNT, <<PCR_LENGTH, 1>>).tag
          = "Panic"
====
